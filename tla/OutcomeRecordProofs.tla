------------------------- MODULE OutcomeRecordProofs -------------------------
(***************************************************************************)
(* What append() returned survives every kill and power loss, and a        *)
(* record's file stays one that the rules of append() could have written:  *)
(* proved for every number of identities, cells and lines, for an object   *)
(* that is let go after a failed append().                                 *)
(***************************************************************************)
EXTENDS OutcomeRecord, FiniteSetTheorems, SequenceTheorems, TLAPS

\* No outcome follows its identity's decision.
FirstFinal(s) ==
  \A k \in Key : \A i, j \in OutcomesOf(s, k) : i < j => s[i].cell \notin Decided

\* Read back, an identity's attempts are 1, 2, ...
Counted(s) ==
  \A k \in Key : \A i \in OutcomesOf(s, k) : Loaded(s)[i].attempt = Cardinality(UpTo(s, k, i))

\* No event is there twice.
Once(s) == \A i, j \in DOMAIN s : i # j => Loaded(s)[i] # Loaded(s)[j]

\* The rules of append() allow these lines.
Sound(s) == Readable(s) /\ FirstFinal(s) /\ Counted(s) /\ Once(s)

\* The object and the file: between two appends the object has read what is
\* there, a line on its way is one append() may write, and behind the write it
\* is the last one.
ObjectInv ==
  /\ pc \in {"idle", "write"} =>
       view = Loaded(lines) /\ torn = tail /\ good = Len(lines)
  /\ pc = "write" => /\ Len(lines) < MaxLines
                     /\ Admitted(pending)
  /\ pc = "sync" => /\ Len(lines) = good + 1
                    /\ lines[good + 1] = pending
                    /\ Loaded(lines) = Append(view, pending)
                    /\ ~torn /\ ~tail

\* The inductive invariant.
RecordInv ==
  /\ TypeOK /\ Len(lines) <= MaxLines
  /\ Sound(lines)
  /\ ReturnedEventsAreOnDisk
  /\ ObjectInv

\* What an older version left follows the rules too.
OldFilesStand == \A s \in OldFiles : Sound(s)

-----------------------------------------------------------------------------
(* Facts about files.                                                      *)

\* The outcomes of an identity are finitely many, at most as many as the lines.
LEMMA OutcomesAreFinite ==
  ASSUME NEW s \in Seq(Event), NEW k
  PROVE  /\ IsFiniteSet(OutcomesOf(s, k))
         /\ Attempts(s, k) \in Nat
         /\ Attempts(s, k) <= Len(s)
<1>1. Len(s) \in Nat /\ DOMAIN s = 1 .. Len(s)
  OBVIOUS
<1>2. IsFiniteSet(1 .. Len(s)) /\ Cardinality(1 .. Len(s)) = Len(s)
  <2>1. \A n \in Nat : IsFiniteSet(1 .. n) /\ Cardinality(1 .. n) = n
    BY FS_Interval
  <2> QED
    BY <1>1, <2>1
<1>3. OutcomesOf(s, k) \in SUBSET (1 .. Len(s))
  BY <1>1 DEF OutcomesOf
<1>4. /\ IsFiniteSet(OutcomesOf(s, k))
      /\ Cardinality(OutcomesOf(s, k)) <= Len(s)
  BY <1>2, <1>3, FS_Subset
<1> QED
  BY <1>4, FS_CardinalityType DEF Attempts

\* An event's number, whatever the file's, makes an event of what is recorded.
LEMMA NumberedIsAnEvent ==
  ASSUME NEW e \in Event, NEW n \in Nat, n < MaxLines
  PROVE  /\ Numbered(e, n) \in Event
         /\ Numbered(e, n).key = e.key
         /\ Numbered(e, n).cell = e.cell
         /\ e.cell = NoCell => Numbered(e, n) = e
         /\ e.attempt # 0 => Numbered(e, n) = e
         /\ e.cell # NoCell => Numbered(e, n).attempt # 0
         /\ (e.cell # NoCell /\ e.attempt = 0) => Numbered(e, n).attempt = n + 1
<1>1. MaxLines \in Nat
  BY RecordAssumption
<1>2. n + 1 \in Attempt /\ n + 1 # 0
  BY <1>1 DEF Attempt
<1>3. CASE e.cell # NoCell /\ e.attempt = 0
  <2>1. Numbered(e, n) = [e EXCEPT !.attempt = n + 1]
    BY <1>3 DEF Numbered
  <2> QED
    BY <1>2, <1>3, <2>1 DEF Event
<1>4. CASE ~(e.cell # NoCell /\ e.attempt = 0)
  <2>1. Numbered(e, n) = e
    BY <1>4 DEF Numbered
  <2> QED
    BY <1>4, <2>1
<1> QED
  BY <1>3, <1>4

\* Opening reads the events that are there, each under its key and cell.
LEMMA LoadedKeepsEvents ==
  ASSUME NEW s \in Seq(Event), Len(s) <= MaxLines
  PROVE  /\ Loaded(s) \in Seq(Event)
         /\ Len(Loaded(s)) = Len(s)
         /\ \A i \in DOMAIN s : /\ Loaded(s)[i].key = s[i].key
                                /\ Loaded(s)[i].cell = s[i].cell
                                /\ s[i].cell = NoCell => Loaded(s)[i] = s[i]
                                /\ s[i].attempt # 0 => Loaded(s)[i] = s[i]
                                /\ (s[i].cell # NoCell /\ s[i].attempt = 0) =>
                                     Loaded(s)[i].attempt = Attempts(SubSeq(s, 1, i - 1), s[i].key) + 1
<1>1. Len(s) \in Nat /\ DOMAIN s = 1 .. Len(s)
  OBVIOUS
<1>2. \A i \in DOMAIN s : Loaded(s)[i] = Numbered(s[i], Attempts(SubSeq(s, 1, i - 1), s[i].key))
  BY DEF Loaded
<1>3. ASSUME NEW i \in DOMAIN s
      PROVE  /\ s[i] \in Event
             /\ Attempts(SubSeq(s, 1, i - 1), s[i].key) \in Nat
             /\ Attempts(SubSeq(s, 1, i - 1), s[i].key) < MaxLines
  <2>1. i \in 1 .. Len(s)
    BY <1>1
  <2>2. SubSeq(s, 1, i - 1) \in Seq(Event) /\ Len(SubSeq(s, 1, i - 1)) = i - 1
    BY <1>1, <2>1
  <2>3. /\ Attempts(SubSeq(s, 1, i - 1), s[i].key) \in Nat
        /\ Attempts(SubSeq(s, 1, i - 1), s[i].key) <= Len(SubSeq(s, 1, i - 1))
    BY <2>2, OutcomesAreFinite
  <2>4. MaxLines \in Nat
    BY RecordAssumption
  <2> HIDE DEF Attempts
  <2> QED
    BY <1>1, <2>1, <2>2, <2>3, <2>4
<1>4. \A i \in DOMAIN s : Loaded(s)[i] \in Event
  BY <1>2, <1>3, NumberedIsAnEvent
<1>5. DOMAIN Loaded(s) = 1 .. Len(s)
  BY <1>1 DEF Loaded
<1>6. Loaded(s) = [i \in 1 .. Len(s) |-> Loaded(s)[i]]
  BY <1>1 DEF Loaded
<1>7. Loaded(s) \in Seq(Event)
  BY <1>1, <1>4, <1>6
<1> QED
  BY <1>1, <1>2, <1>3, <1>5, <1>7, NumberedIsAnEvent

\* Opening finds the outcomes, and so the attempts and the decisions, that the
\* file has.
LEMMA LoadedKeepsOutcomes ==
  ASSUME NEW s \in Seq(Event), Len(s) <= MaxLines, NEW k
  PROVE  /\ OutcomesOf(Loaded(s), k) = OutcomesOf(s, k)
         /\ Attempts(Loaded(s), k) = Attempts(s, k)
         /\ HasDecision(Loaded(s), k) <=> HasDecision(s, k)
<1>1. /\ Loaded(s) \in Seq(Event) /\ s \in Seq(Event)
      /\ DOMAIN Loaded(s) = DOMAIN s
      /\ \A i \in DOMAIN s : Loaded(s)[i].key = s[i].key /\ Loaded(s)[i].cell = s[i].cell
  BY LoadedKeepsEvents
<1>2. \A i \in DOMAIN s : s[i] # Garbage /\ Loaded(s)[i] # Garbage
  BY <1>1, RecordAssumption
<1>3. OutcomesOf(Loaded(s), k) = OutcomesOf(s, k)
  BY <1>1, <1>2 DEF OutcomesOf
<1>4. OutcomesOf(s, k) \subseteq DOMAIN s
  BY DEF OutcomesOf
<1> QED
  BY <1>1, <1>3, <1>4 DEF Attempts, HasDecision

\* One line more is read as the lines before it and itself, numbered.
LEMMA LoadedAppend ==
  ASSUME NEW s \in Seq(Event), NEW e \in Event
  PROVE  /\ \A i \in DOMAIN s : Loaded(Append(s, e))[i] = Loaded(s)[i]
         /\ Loaded(Append(s, e))[Len(s) + 1] = Numbered(e, Attempts(s, e.key))
<1> DEFINE t == Append(s, e)
<1>1. /\ Len(s) \in Nat /\ DOMAIN s = 1 .. Len(s)
      /\ t \in Seq(Event) /\ Len(t) = Len(s) + 1 /\ DOMAIN t = 1 .. Len(s) + 1
      /\ t[Len(s) + 1] = e /\ \A i \in 1 .. Len(s) : t[i] = s[i]
  OBVIOUS
<1>2. \A i \in 1 .. Len(s) + 1 : SubSeq(t, 1, i - 1) = SubSeq(s, 1, i - 1)
  <2> SUFFICES ASSUME NEW i \in 1 .. Len(s) + 1
               PROVE  SubSeq(t, 1, i - 1) = SubSeq(s, 1, i - 1)
    OBVIOUS
  <2>1. i - 1 \in 0 .. Len(s)
    BY <1>1
  <2> QED
    BY <1>1, <2>1
<1>3. SubSeq(s, 1, Len(s)) = s
  BY <1>1
<1>b. /\ \A i \in DOMAIN s : Loaded(s)[i] = Numbered(s[i], Attempts(SubSeq(s, 1, i - 1), s[i].key))
      /\ \A i \in DOMAIN t : Loaded(t)[i] = Numbered(t[i], Attempts(SubSeq(t, 1, i - 1), t[i].key))
      /\ DOMAIN Loaded(s) = DOMAIN s /\ DOMAIN Loaded(t) = DOMAIN t
  BY DEF Loaded
<1> HIDE DEF t
<1>4. \A i \in 1 .. Len(s) : Loaded(t)[i] = Loaded(s)[i]
  <2> SUFFICES ASSUME NEW i \in 1 .. Len(s)
               PROVE  Loaded(t)[i] = Loaded(s)[i]
    OBVIOUS
  <2>1. /\ i \in DOMAIN s /\ i \in DOMAIN t /\ t[i] = s[i]
        /\ SubSeq(t, 1, i - 1) = SubSeq(s, 1, i - 1)
    BY <1>1, <1>2
  <2> QED
    BY <2>1, <1>b
<1>5. Loaded(t)[Len(s) + 1] = Numbered(e, Attempts(s, e.key))
  <2>1. Len(s) + 1 \in DOMAIN t /\ t[Len(s) + 1] = e /\ SubSeq(t, 1, (Len(s) + 1) - 1) = s
    BY <1>1, <1>2, <1>3
  <2>2. Loaded(t)[Len(s) + 1]
          = Numbered(t[Len(s) + 1], Attempts(SubSeq(t, 1, (Len(s) + 1) - 1), t[Len(s) + 1].key))
    BY <1>b, <2>1, Zenon
  <2> QED
    BY <2>1, <2>2, Zenon
<1> QED
  BY <1>1, <1>4, <1>5 DEF t

\* The first lines are read as they are in the whole.
LEMMA LoadedPrefix ==
  ASSUME NEW s \in Seq(Event), NEW n \in 0 .. Len(s)
  PROVE  /\ SubSeq(s, 1, n) \in Seq(Event) /\ Len(SubSeq(s, 1, n)) = n
         /\ \A i \in 1 .. n : /\ SubSeq(s, 1, n)[i] = s[i]
                              /\ Loaded(SubSeq(s, 1, n))[i] = Loaded(s)[i]
<1> DEFINE t == SubSeq(s, 1, n)
<1>1. /\ n \in Nat /\ Len(s) \in Nat /\ n <= Len(s) /\ DOMAIN s = 1 .. Len(s)
      /\ t \in Seq(Event) /\ Len(t) = n /\ DOMAIN t = 1 .. n
      /\ \A i \in 1 .. n : t[i] = s[i]
  OBVIOUS
<1>2. \A i \in 1 .. n : SubSeq(t, 1, i - 1) = SubSeq(s, 1, i - 1)
  <2> SUFFICES ASSUME NEW i \in 1 .. n
               PROVE  SubSeq(t, 1, i - 1) = SubSeq(s, 1, i - 1)
    OBVIOUS
  <2>1. i - 1 \in 0 .. n
    BY <1>1
  <2> QED
    BY <1>1, <2>1
<1>3. /\ \A i \in DOMAIN s : Loaded(s)[i] = Numbered(s[i], Attempts(SubSeq(s, 1, i - 1), s[i].key))
      /\ \A i \in DOMAIN t : Loaded(t)[i] = Numbered(t[i], Attempts(SubSeq(t, 1, i - 1), t[i].key))
  BY DEF Loaded
<1> HIDE DEF t
<1>4. \A i \in 1 .. n : Loaded(t)[i] = Loaded(s)[i]
  <2> SUFFICES ASSUME NEW i \in 1 .. n
               PROVE  Loaded(t)[i] = Loaded(s)[i]
    OBVIOUS
  <2>1. /\ i \in DOMAIN s /\ i \in DOMAIN t /\ t[i] = s[i]
        /\ SubSeq(t, 1, i - 1) = SubSeq(s, 1, i - 1)
    BY <1>1, <1>2
  <2> QED
    BY <2>1, <1>3
<1> QED
  BY <1>1, <1>4 DEF t

\* The first lines of a sound file are a sound file.
LEMMA PrefixIsSound ==
  ASSUME NEW s \in Seq(Event), Sound(s), NEW n \in 0 .. Len(s)
  PROVE  Sound(SubSeq(s, 1, n))
<1> DEFINE t == SubSeq(s, 1, n)
<1>1. /\ t \in Seq(Event) /\ DOMAIN t = 1 .. n
      /\ n \in Nat /\ n <= Len(s) /\ Len(s) \in Nat /\ DOMAIN s = 1 .. Len(s)
      /\ \A i \in 1 .. n : t[i] = s[i] /\ Loaded(t)[i] = Loaded(s)[i]
  BY LoadedPrefix
<1>2. \A i \in 1 .. n : i \in DOMAIN s /\ i \in Int
  BY <1>1
<1> HIDE DEF t
<1>3. \A k : OutcomesOf(t, k) = {i \in OutcomesOf(s, k) : i \in 1 .. n}
  BY <1>1, <1>2 DEF OutcomesOf
<1>4. \A k, i : i \in OutcomesOf(t, k) => i \in OutcomesOf(s, k) /\ i \in 1 .. n
  BY <1>3
<1>5. Readable(t)
  BY <1>1, <1>2 DEF Sound, Readable
<1>6. FirstFinal(t)
  BY <1>1, <1>4 DEF Sound, FirstFinal
<1>7. Counted(t)
  <2> SUFFICES ASSUME NEW k \in Key, NEW i \in OutcomesOf(t, k)
               PROVE  Loaded(t)[i].attempt = Cardinality(UpTo(t, k, i))
    BY DEF Counted
  <2>1. i \in OutcomesOf(s, k) /\ i \in 1 .. n
    BY <1>4
  <2>2. \A j \in OutcomesOf(s, k) : j <= i => j \in 1 .. n
    <3>1. OutcomesOf(s, k) \subseteq 1 .. Len(s)
      BY <1>1 DEF OutcomesOf
    <3> QED
      BY <1>1, <2>1, <3>1
  <2>3. UpTo(t, k, i) = UpTo(s, k, i)
    BY <1>3, <2>2 DEF UpTo
  <2> QED
    BY <1>1, <2>1, <2>3 DEF Sound, Counted
<1>8. Once(t)
  BY <1>1, <1>2 DEF Sound, Once
<1> QED
  BY <1>5, <1>6, <1>7, <1>8 DEF Sound, t

\* The outcomes of a file with one line more: those it had, and that line if it
\* is one of the identity's.
LEMMA OutcomesOfAppend ==
  ASSUME NEW s \in Seq(Event), NEW e \in Event, NEW k
  PROVE  OutcomesOf(Append(s, e), k)
           = OutcomesOf(s, k) \cup {i \in {Len(s) + 1} : e.key = k /\ e.cell # NoCell}
<1> DEFINE t == Append(s, e)
<1>1. /\ Len(s) \in Nat /\ DOMAIN s = 1 .. Len(s) /\ DOMAIN t = 1 .. Len(s) + 1
      /\ t[Len(s) + 1] = e /\ \A i \in 1 .. Len(s) : t[i] = s[i]
  OBVIOUS
<1>2. 1 .. Len(s) + 1 = (1 .. Len(s)) \cup {Len(s) + 1}
  BY <1>1
<1>3. e # Garbage
  BY RecordAssumption
<1> HIDE DEF t
<1>4. OutcomesOf(t, k) = OutcomesOf(s, k) \cup {i \in {Len(s) + 1} : e.key = k /\ e.cell # NoCell}
  BY <1>1, <1>2, <1>3 DEF OutcomesOf
<1> QED
  BY <1>4 DEF t

\* What append() may go on to write, to an object that has read the lines s.
Allowed(s, e) ==
  IF e.cell = NoCell
  THEN \A i \in DOMAIN s : s[i] # e
  ELSE ~HasDecision(s, e.key) /\ e.attempt = Attempts(s, e.key) + 1

\* An event that append() may write keeps a sound file sound.
LEMMA AppendIsSound ==
  ASSUME NEW s \in Seq(Event), Sound(s), Len(s) < MaxLines,
         NEW e \in Event, Allowed(Loaded(s), e)
  PROVE  /\ Sound(Append(s, e))
         /\ Loaded(Append(s, e)) = Append(Loaded(s), e)
<1> DEFINE t == Append(s, e)
           m == Len(s) + 1
<1>1. /\ Len(s) \in Nat /\ DOMAIN s = 1 .. Len(s) /\ m \in Nat
      /\ t \in Seq(Event) /\ Len(t) = m /\ DOMAIN t = 1 .. m
      /\ t[m] = e /\ \A i \in 1 .. Len(s) : t[i] = s[i]
      /\ MaxLines \in Nat
  BY RecordAssumption
<1>2. \A i \in 1 .. m : i = m \/ i \in 1 .. Len(s)
  BY <1>1
<1>3. /\ Loaded(s) \in Seq(Event) /\ Len(Loaded(s)) = Len(s) /\ DOMAIN Loaded(s) = 1 .. Len(s)
      /\ \A i \in DOMAIN s : Loaded(s)[i].key = s[i].key /\ Loaded(s)[i].cell = s[i].cell
  BY <1>1, LoadedKeepsEvents
<1>4. \A k : /\ OutcomesOf(Loaded(s), k) = OutcomesOf(s, k)
             /\ Attempts(Loaded(s), k) = Attempts(s, k)
             /\ HasDecision(Loaded(s), k) <=> HasDecision(s, k)
  BY <1>1, LoadedKeepsOutcomes
<1>5. \A k : /\ IsFiniteSet(OutcomesOf(s, k))
             /\ Attempts(s, k) \in Nat /\ Attempts(s, k) <= Len(s)
             /\ OutcomesOf(s, k) \subseteq 1 .. Len(s)
  BY <1>1, OutcomesAreFinite DEF OutcomesOf
<1>6. e.cell # NoCell => e.attempt = Attempts(s, e.key) + 1 /\ ~HasDecision(s, e.key)
  BY <1>4 DEF Allowed
<1>7. Numbered(e, Attempts(s, e.key)) = e
  <2>1. e.cell # NoCell => e.attempt # 0
    BY <1>5, <1>6
  <2> QED
    BY <2>1 DEF Numbered
<1>8. /\ \A i \in 1 .. Len(s) : Loaded(t)[i] = Loaded(s)[i]
      /\ Loaded(t)[m] = e
  BY <1>1, <1>7, LoadedAppend
<1>9. DOMAIN Loaded(t) = 1 .. m
  BY <1>1 DEF Loaded
<1>10. Loaded(t) = Append(Loaded(s), e)
  <2>1. ASSUME NEW a \in Seq(Event), NEW b \in Seq(Event), Len(a) = m, Len(b) = m,
               \A i \in 1 .. m : a[i] = b[i]
        PROVE  a = b
    BY <2>1
  <2>2. Loaded(t) \in Seq(Event) /\ Len(Loaded(t)) = m
    <3>1. t \in Seq(Event) /\ Len(t) <= MaxLines /\ Len(t) = m
      BY <1>1
    <3> HIDE DEF t, m
    <3> QED
      BY <3>1, LoadedKeepsEvents
  <2>3. /\ Append(Loaded(s), e) \in Seq(Event) /\ Len(Append(Loaded(s), e)) = m
        /\ Append(Loaded(s), e)[m] = e
        /\ \A i \in 1 .. Len(s) : Append(Loaded(s), e)[i] = Loaded(s)[i]
    BY <1>3
  <2>4. \A i \in 1 .. m : Loaded(t)[i] = Append(Loaded(s), e)[i]
    BY <1>2, <1>8, <2>3
  <2> HIDE DEF t, m
  <2> QED
    BY <2>1, <2>2, <2>3, <2>4
<1>11. \A k : OutcomesOf(t, k) = OutcomesOf(s, k) \cup {i \in {m} : e.key = k /\ e.cell # NoCell}
  BY OutcomesOfAppend
<1> HIDE DEF t, m
<1>12. \A k, i : i \in OutcomesOf(t, k) =>
         \/ i \in OutcomesOf(s, k) /\ i \in 1 .. Len(s) /\ i \in Int /\ i < m
         \/ i = m /\ e.key = k /\ e.cell # NoCell
  BY <1>1, <1>5, <1>11 DEF m
<1>13. Readable(t)
  BY <1>1, <1>2, RecordAssumption DEF Sound, Readable
<1>14. FirstFinal(t)
  <2> SUFFICES ASSUME NEW k \in Key, NEW i \in OutcomesOf(t, k), NEW j \in OutcomesOf(t, k),
                      i < j, t[i].cell \in Decided
               PROVE  FALSE
    BY DEF FirstFinal
  <2>1. CASE j \in OutcomesOf(s, k) /\ j \in 1 .. Len(s)
    <3>1. i \in OutcomesOf(s, k) /\ i \in 1 .. Len(s)
      BY <1>1, <1>12, <2>1 DEF m
    <3> QED
      BY <1>1, <2>1, <3>1 DEF Sound, FirstFinal
  <2>2. CASE j = m /\ e.key = k /\ e.cell # NoCell
    <3>1. i \in OutcomesOf(s, k) /\ i \in 1 .. Len(s) /\ s[i].cell \in Decided
      BY <1>1, <1>12, <2>2
    <3>2. \A l \in OutcomesOf(s, k) : l \in Int /\ i \in Int /\ (i < l => s[i].cell \notin Decided)
      BY <1>5, <3>1 DEF Sound, FirstFinal
    <3>3. HasDecision(s, k)
      BY <3>1, <3>2 DEF HasDecision
    <3> QED
      BY <1>6, <2>2, <3>3
  <2> QED
    BY <1>12, <2>1, <2>2
<1>15. Counted(t)
  <2> SUFFICES ASSUME NEW k \in Key, NEW i \in OutcomesOf(t, k)
               PROVE  Loaded(t)[i].attempt = Cardinality(UpTo(t, k, i))
    BY DEF Counted
  <2>1. CASE i \in OutcomesOf(s, k) /\ i \in 1 .. Len(s) /\ i < m
    <3>1. UpTo(t, k, i) = UpTo(s, k, i)
      BY <1>1, <1>11, <2>1 DEF UpTo
    <3> QED
      BY <1>8, <2>1, <3>1 DEF Sound, Counted
  <2>2. CASE i = m /\ e.key = k /\ e.cell # NoCell
    <3>1. UpTo(t, k, i) = OutcomesOf(s, k) \cup {m}
      <4>1. \A j \in OutcomesOf(s, k) : j <= m
        BY <1>1, <1>5 DEF m
      <4>2. OutcomesOf(t, k) = OutcomesOf(s, k) \cup {m} /\ m <= m
        BY <1>1, <1>11, <2>2
      <4> QED
        BY <2>2, <4>1, <4>2 DEF UpTo
    <3>2. m \notin OutcomesOf(s, k)
      BY <1>1, <1>5 DEF m
    <3>3. Cardinality(OutcomesOf(s, k) \cup {m}) = Attempts(s, k) + 1
      BY <1>5, <3>2, FS_AddElement DEF Attempts
    <3> QED
      BY <1>6, <1>8, <2>2, <3>1, <3>3
  <2> QED
    BY <1>12, <2>1, <2>2
<1>16. \A i \in 1 .. Len(s) : Loaded(s)[i] # e
  <2> SUFFICES ASSUME NEW i \in 1 .. Len(s), Loaded(s)[i] = e, e.cell # NoCell
               PROVE  FALSE
    BY <1>3 DEF Allowed
  <2>1. e.key \in Key
    BY DEF Event
  <2>2. i \in OutcomesOf(s, e.key)
    BY <1>1, <1>3 DEF OutcomesOf, Sound, Readable
  <2>3. e.attempt = Cardinality(UpTo(s, e.key, i))
    BY <2>1, <2>2 DEF Sound, Counted
  <2>4. UpTo(s, e.key, i) \in SUBSET OutcomesOf(s, e.key)
    BY DEF UpTo
  <2>5. Cardinality(UpTo(s, e.key, i)) <= Attempts(s, e.key)
    BY <1>5, <2>4, FS_Subset DEF Attempts
  <2> QED
    BY <1>5, <1>6, <2>3, <2>5
<1>17. Once(t)
  BY <1>1, <1>2, <1>8, <1>16 DEF Sound, Once
<1> QED
  BY <1>10, <1>13, <1>14, <1>15, <1>17 DEF Sound, t

-----------------------------------------------------------------------------
(* The invariant.                                                          *)

\* What an older version left has its attempts counted as it is read.
LEMMA InitRecord ==
  ASSUME OldFilesStand, Init
  PROVE  RecordInv
<1>1. /\ lines \in Seq(Event) /\ Len(lines) <= MaxLines /\ Sound(lines)
  BY RecordAssumption DEF Init, OldFilesStand
<1>2. Len(lines) \in Nat
  BY <1>1
<1>3. pending \in Event
  <2>1. (CHOOSE k \in Key : TRUE) \in Key
    BY RecordAssumption
  <2>2. 0 \in Attempt
    BY RecordAssumption DEF Attempt
  <2> QED
    BY <2>1, <2>2 DEF Init, Submitted, Event
<1>4. TypeOK
  <2>1. lines \in Seq(Event \cup {Garbage})
    BY <1>1
  <2>2. view \in Seq(Event)
    BY DEF Init
  <2>3. synced \in 0 .. Len(lines)
    BY <1>2 DEF Init
  <2> QED
    BY <1>3, <2>1, <2>2, <2>3 DEF Init, TypeOK
<1>5. ObjectInv /\ ReturnedEventsAreOnDisk
  BY DEF Init, ObjectInv, ReturnedEventsAreOnDisk
<1> QED
  BY <1>1, <1>4, <1>5 DEF RecordInv

\* A step that leaves the lines, what is synced and what was returned only has
\* to say what becomes of the object.
LEMMA FileStays ==
  ASSUME RecordInv, lines' = lines, synced' = synced, returned' = returned,
         tail' \in BOOLEAN, torn' \in BOOLEAN, good' \in Nat,
         pc' \in {"closed", "idle", "write", "sync"}, view' \in Seq(Event), pending' \in Event,
         ObjectInv'
  PROVE  RecordInv'
<1>1. TypeOK' /\ ReturnedEventsAreOnDisk'
  BY DEF RecordInv, TypeOK, ReturnedEventsAreOnDisk
<1>2. Sound(lines)'
  BY DEF RecordInv
<1> QED
  BY <1>1, <1>2 DEF RecordInv

\* Every step keeps the invariant, of an object that a failed append() ends.
LEMMA NextRecord ==
  ASSUME ~GoesOn, RecordInv, [Next]_vars
  PROVE  RecordInv'
<1> USE DEF file
<1>1. /\ lines \in Seq(Event) /\ Len(lines) \in Nat /\ Len(lines) <= MaxLines
      /\ Sound(lines) /\ DOMAIN lines = 1 .. Len(lines)
  <2>1. /\ lines \in Seq(Event \cup {Garbage}) /\ Readable(lines)
        /\ Len(lines) <= MaxLines /\ Sound(lines)
    BY DEF RecordInv, TypeOK, Sound
  <2>2. \A i \in 1 .. Len(lines) : lines[i] \in Event
    BY <2>1 DEF Readable
  <2>3. lines \in Seq(Event)
    BY <2>1, <2>2
  <2> QED
    BY <2>1, <2>3
<1>2. /\ TypeOK /\ ReturnedEventsAreOnDisk /\ ObjectInv
  BY DEF RecordInv
<1>3. SubSeq(lines, 1, Len(lines)) = lines
  BY <1>1
<1>4. pc = "write" => Cut = lines /\ ~TailUnknown
  BY <1>2, <1>3 DEF ObjectInv, Cut, TailUnknown, TypeOK
<1>5. CASE Open
  <2>1. Loaded(lines) \in Seq(Event)
    BY <1>1, LoadedKeepsEvents
  <2>2. ObjectInv'
    BY <1>5 DEF Open, ObjectInv, Loaded
  <2> QED
    BY <1>1, <1>2, <1>5, <2>1, <2>2, FileStays DEF Open, TypeOK
<1>6. ASSUME NEW e \in Events, StartAppend(e)
      PROVE  RecordInv'
  <2> DEFINE event == Numbered(e, Attempts(view, e.key))
  <2>1. /\ pc = "idle" /\ Len(lines) < MaxLines /\ Admitted(event)
        /\ pc' = "write" /\ pending' = event
        /\ UNCHANGED <<lines, tail, synced, view, good, torn, returned>>
    BY <1>6 DEF StartAppend
  <2>2. e \in Event
    BY RecordAssumption DEF Events, Submitted, Event, Attempt
  <2>3. view = Loaded(lines) /\ torn = tail /\ good = Len(lines)
    BY <1>2, <2>1 DEF ObjectInv
  <2>4. Attempts(view, e.key) \in Nat /\ Attempts(view, e.key) < MaxLines
    <3>1. Attempts(view, e.key) = Attempts(lines, e.key)
      BY <1>1, <2>3, LoadedKeepsOutcomes
    <3>2. Attempts(lines, e.key) \in Nat /\ Attempts(lines, e.key) <= Len(lines)
      BY <1>1, OutcomesAreFinite
    <3>3. MaxLines \in Nat
      BY RecordAssumption
    <3> QED
      BY <1>1, <2>1, <3>1, <3>2, <3>3
  <2>5. event \in Event
    BY <2>2, <2>4, NumberedIsAnEvent
  <2> HIDE DEF event
  <2>6. ObjectInv'
    BY <2>1, <2>3 DEF ObjectInv, Loaded, Admitted, Attempts, HasDecision, OutcomesOf
  <2> QED
    BY <1>2, <2>1, <2>5, <2>6, FileStays DEF TypeOK
<1>7. CASE Write
  <2>1. /\ pc = "write" /\ lines' = Append(lines, pending)
        /\ tail' = FALSE /\ torn' = FALSE /\ pc' = "sync"
        /\ UNCHANGED <<synced, view, good, pending, returned>>
    BY <1>4, <1>7 DEF Write
  <2>2. /\ view = Loaded(lines) /\ good = Len(lines) /\ Len(lines) < MaxLines
        /\ Admitted(pending) /\ pending \in Event
    BY <1>2, <2>1 DEF ObjectInv, TypeOK
  <2>3. Allowed(Loaded(lines), pending)
    BY <2>2 DEF Admitted, Allowed
  <2>4. Sound(lines') /\ Loaded(lines') = Append(view, pending)
    BY <1>1, <2>1, <2>2, <2>3, AppendIsSound
  <2>5. /\ lines' \in Seq(Event) /\ Len(lines') = Len(lines) + 1
        /\ lines'[Len(lines) + 1] = pending
        /\ \A i \in 1 .. Len(lines) : lines'[i] = lines[i]
        /\ SubSeq(lines', 1, Len(lines)) = lines
    BY <1>1, <2>1, <2>2
  <2>6. TypeOK'
    <3>1. lines' \in Seq(Event \cup {Garbage})
      BY <2>5
    <3>2. synced' \in 0 .. Len(lines')
      BY <1>1, <1>2, <2>1, <2>5 DEF TypeOK
    <3> QED
      BY <1>2, <2>1, <3>1, <3>2 DEF TypeOK
  <2>7. Len(lines') <= MaxLines
    BY <1>1, <2>2, <2>5, RecordAssumption
  <2>8. ReturnedEventsAreOnDisk'
    <3> SUFFICES ASSUME NEW e \in returned
                 PROVE  \E i \in 1 .. synced : lines'[i] = e
      BY <2>1 DEF ReturnedEventsAreOnDisk
    <3>1. PICK i \in 1 .. synced : lines[i] = e
      BY <1>2 DEF ReturnedEventsAreOnDisk
    <3>2. i \in 1 .. Len(lines)
      BY <1>1, <1>2, <3>1 DEF TypeOK
    <3> QED
      BY <2>5, <3>1, <3>2
  <2>9. ObjectInv'
    <3>1. Loaded(lines') = Append(view', pending')
      BY <2>1, <2>4
    <3>2. Len(lines') = good' + 1 /\ lines'[good' + 1] = pending'
      BY <2>1, <2>2, <2>5
    <3>3. pc' = "sync" /\ ~torn' /\ ~tail'
      BY <2>1
    <3> QED
      BY <3>1, <3>2, <3>3 DEF ObjectInv
  <2> QED
    BY <2>4, <2>6, <2>7, <2>8, <2>9 DEF RecordInv, Sound
<1>8. CASE WriteFails
  <2>1. /\ lines' = lines /\ tail' \in BOOLEAN /\ torn' = FALSE /\ pc' = "closed"
        /\ UNCHANGED <<synced, view, good, pending, returned>>
    BY <1>4, <1>8 DEF WriteFails, PartWritten, Raised
  <2>2. ObjectInv'
    BY <2>1 DEF ObjectInv
  <2> QED
    BY <1>2, <2>1, <2>2, FileStays DEF TypeOK
<1>9. CASE Sync
  <2>1. /\ pc = "sync" /\ synced' = Len(lines) /\ good' = good + 1
        /\ view' = Append(view, pending) /\ returned' = returned \cup {pending}
        /\ pc' = "idle" /\ UNCHANGED <<lines, tail, torn, pending>>
    BY <1>9 DEF Sync
  <2>2. /\ Len(lines) = good + 1 /\ lines[good + 1] = pending
        /\ Loaded(lines) = Append(view, pending) /\ ~torn /\ ~tail
        /\ pending \in Event /\ good \in Nat /\ view \in Seq(Event)
    BY <1>2, <2>1 DEF ObjectInv, TypeOK
  <2>3. TypeOK'
    BY <1>1, <1>2, <2>1, <2>2 DEF TypeOK
  <2>4. ReturnedEventsAreOnDisk'
    <3> SUFFICES ASSUME NEW e \in returned \cup {pending}
                 PROVE  \E i \in 1 .. Len(lines) : lines[i] = e
      BY <2>1 DEF ReturnedEventsAreOnDisk
    <3>1. CASE e = pending
      BY <1>1, <2>2, <3>1
    <3>2. CASE e \in returned
      <4>1. PICK i \in 1 .. synced : lines[i] = e
        BY <1>2, <3>2 DEF ReturnedEventsAreOnDisk
      <4>2. i \in 1 .. Len(lines)
        BY <1>1, <1>2, <4>1 DEF TypeOK
      <4> QED
        BY <4>1, <4>2
    <3> QED
      BY <3>1, <3>2
  <2>5. ObjectInv'
    <3>1. view' = Loaded(lines')
      BY <2>1, <2>2
    <3>2. good' = Len(lines')
      BY <2>1, <2>2
    <3>3. pc' = "idle" /\ torn' = tail'
      BY <1>2, <2>1, <2>2 DEF TypeOK
    <3> QED
      BY <3>1, <3>2, <3>3 DEF ObjectInv
  <2>6. Sound(lines')
    BY <1>1, <2>1
  <2> QED
    BY <1>1, <2>1, <2>3, <2>4, <2>5, <2>6 DEF RecordInv
<1>10. CASE SyncFails
  <2>1. pc' = "closed" /\ UNCHANGED <<lines, tail, synced, view, good, torn, pending, returned>>
    BY <1>10 DEF SyncFails, Raised
  <2>2. ObjectInv'
    BY <2>1 DEF ObjectInv
  <2> QED
    BY <1>2, <2>1, <2>2, FileStays DEF TypeOK
<1>11. CASE Kill
  <2>1. /\ lines' = lines /\ tail' \in BOOLEAN /\ pc' = "closed"
        /\ UNCHANGED <<synced, view, good, torn, pending, returned>>
    BY <1>2, <1>4, <1>11 DEF Kill, PartWritten, TypeOK
  <2>2. ObjectInv'
    BY <2>1 DEF ObjectInv
  <2> QED
    BY <1>2, <2>1, <2>2, FileStays DEF TypeOK
<1>12. CASE PowerLoss
  <2>1. PICK n \in synced .. Len(lines) :
          /\ lines' = SubSeq(lines, 1, n) /\ tail' \in BOOLEAN /\ synced' = n
    BY <1>2, <1>12 DEF PowerLoss, TypeOK
  <2>2. pc' = "closed" /\ UNCHANGED <<view, good, torn, pending, returned>>
    BY <1>12 DEF PowerLoss
  <2>3. n \in Nat /\ n \in 0 .. Len(lines) /\ synced \in Nat /\ synced <= n
    BY <1>1, <1>2, <2>1 DEF TypeOK
  <2>4. Sound(lines')
    BY <1>1, <2>1, <2>3, PrefixIsSound
  <2>5. /\ lines' \in Seq(Event) /\ Len(lines') = n
        /\ \A i \in 1 .. n : lines'[i] = lines[i]
    BY <1>1, <2>1, <2>3
  <2>6. TypeOK'
    BY <1>2, <2>1, <2>2, <2>3, <2>5 DEF TypeOK
  <2>7. Len(lines') <= MaxLines
    BY <1>1, <2>3, <2>5, RecordAssumption
  <2>8. ReturnedEventsAreOnDisk'
    <3> SUFFICES ASSUME NEW e \in returned
                 PROVE  \E i \in 1 .. n : lines'[i] = e
      BY <2>1, <2>2 DEF ReturnedEventsAreOnDisk
    <3>1. PICK i \in 1 .. synced : lines[i] = e
      BY <1>2 DEF ReturnedEventsAreOnDisk
    <3>2. i \in 1 .. n
      BY <2>3, <3>1
    <3> QED
      BY <2>5, <3>1, <3>2
  <2>9. ObjectInv'
    BY <2>2 DEF ObjectInv
  <2> QED
    BY <2>4, <2>6, <2>7, <2>8, <2>9 DEF RecordInv, Sound
<1>13. CASE UNCHANGED vars
  <2>1. ObjectInv'
    BY <1>2, <1>13 DEF vars, ObjectInv, Loaded, Admitted, Attempts, HasDecision, OutcomesOf
  <2> QED
    BY <1>2, <1>13, <2>1, FileStays DEF vars, TypeOK
<1> QED
  BY <1>5, <1>6, <1>7, <1>8, <1>9, <1>10, <1>11, <1>12, <1>13 DEF Next

\* The invariant holds in every reachable state.
LEMMA RecordInvHolds ==
  ASSUME ~GoesOn, OldFilesStand
  PROVE  Spec => []RecordInv
<1>1. Init => RecordInv
  BY InitRecord
<1>2. RecordInv /\ [Next]_vars => RecordInv'
  BY NextRecord
<1> QED
  BY <1>1, <1>2, PTL DEF Spec

-----------------------------------------------------------------------------
\* record.py:5-14, 17-18, jsonl.py:3-7: whatever is killed or loses power, and
\* whichever appends are replayed after it, the file can be read, an event
\* whose append() returned is in it for good, an identity's attempts are
\* counted once each, none follows its decision, and the object that writes the
\* file knows what it holds.
THEOREM RecordsStand ==
  ASSUME ~GoesOn, OldFilesStand
  PROVE  Spec => []RecordStands
<1>1. ASSUME RecordInv
      PROVE  RecordStands
  <2>1. TypeOK /\ Sound(lines) /\ ReturnedEventsAreOnDisk /\ ObjectInv
    BY <1>1 DEF RecordInv
  <2>2. RecordStaysReadable
    BY <2>1 DEF RecordStaysReadable, Sound
  <2>3. ViewIsTheFile
    BY <2>1 DEF ViewIsTheFile, ObjectInv
  <2>4. FirstDecisionIsFinal
    BY <2>1 DEF FirstDecisionIsFinal, Sound, FirstFinal
  <2>5. AttemptsAreCounted
    BY <2>1 DEF AttemptsAreCounted, Sound, Counted, UpTo
  <2>6. ReplayWritesNothing
    BY <2>1 DEF ReplayWritesNothing, Sound, Once
  <2> QED
    BY <2>1, <2>2, <2>3, <2>4, <2>5, <2>6 DEF RecordStands, RecordIsSound, AttemptsStand
<1> QED
  BY <1>1, RecordInvHolds, PTL

-----------------------------------------------------------------------------
(* The abstract history.                                                   *)

\* Each of the numbers 1, 2, ... up to the count of an identity's outcomes is
\* the count of its outcomes up to one of them.
LEMMA OutcomeAtIsThere ==
  ASSUME NEW s \in Seq(Event), NEW k, NEW n \in 1 .. Attempts(s, k)
  PROVE  \E i \in OutcomesOf(s, k) : Cardinality(UpTo(s, k, i)) = n
<1> DEFINE S == OutcomesOf(s, k)
           T == (1 .. Attempts(s, k)) \ {n}
           f == [i \in S |-> Cardinality(UpTo(s, k, i))]
<1>1. /\ IsFiniteSet(S) /\ Attempts(s, k) \in Nat /\ Attempts(s, k) = Cardinality(S)
      /\ S \subseteq Int
  <2>1. IsFiniteSet(S) /\ Attempts(s, k) \in Nat
    BY OutcomesAreFinite
  <2>2. S \subseteq Int
    BY DEF OutcomesOf
  <2> QED
    BY <2>1, <2>2 DEF Attempts
<1>2. /\ IsFiniteSet(1 .. Attempts(s, k)) /\ Cardinality(1 .. Attempts(s, k)) = Attempts(s, k)
  <2>1. \A m \in Nat : IsFiniteSet(1 .. m) /\ Cardinality(1 .. m) = m
    BY FS_Interval
  <2> QED
    BY <1>1, <2>1
<1>3. IsFiniteSet(T) /\ Cardinality(T) = Attempts(s, k) - 1
  BY <1>2, FS_RemoveElement
<1>4. \A i \in S : /\ IsFiniteSet(UpTo(s, k, i))
                    /\ Cardinality(UpTo(s, k, i)) \in 1 .. Attempts(s, k)
  <2> SUFFICES ASSUME NEW i \in S
               PROVE  /\ IsFiniteSet(UpTo(s, k, i))
                      /\ Cardinality(UpTo(s, k, i)) \in 1 .. Attempts(s, k)
    OBVIOUS
  <2>1. UpTo(s, k, i) \in SUBSET S /\ i \in UpTo(s, k, i)
    BY <1>1 DEF UpTo
  <2>2. /\ IsFiniteSet(UpTo(s, k, i)) /\ Cardinality(UpTo(s, k, i)) \in Nat
        /\ Cardinality(UpTo(s, k, i)) <= Attempts(s, k)
    BY <1>1, <2>1, FS_Subset, FS_CardinalityType
  <2>3. Cardinality(UpTo(s, k, i)) # 0
    BY <2>1, <2>2, FS_EmptySet
  <2> QED
    BY <1>1, <2>2, <2>3
<1>5. \A i, j \in S : i < j => Cardinality(UpTo(s, k, i)) < Cardinality(UpTo(s, k, j))
  <2> SUFFICES ASSUME NEW i \in S, NEW j \in S, i < j
               PROVE  Cardinality(UpTo(s, k, i)) < Cardinality(UpTo(s, k, j))
    OBVIOUS
  <2>1. UpTo(s, k, i) \in SUBSET UpTo(s, k, j)
    BY <1>1 DEF UpTo
  <2>2. j \in UpTo(s, k, j) /\ j \notin UpTo(s, k, i)
    BY <1>1 DEF UpTo
  <2> QED
    BY <1>4, <2>1, <2>2, FS_Subset
<1>6. SUFFICES ASSUME \A i \in S : Cardinality(UpTo(s, k, i)) # n
               PROVE  FALSE
  OBVIOUS
<1>7. f \in [S -> T]
  BY <1>4, <1>6
<1>8. PICK i, j \in S : i # j /\ f[i] = f[j]
  <2>1. Cardinality(T) < Cardinality(S)
    BY <1>1, <1>3
  <2> HIDE DEF f, S, T
  <2> QED
    BY <1>1, <1>3, <1>7, <2>1, FS_PigeonHole
<1>9. i < j \/ j < i
  <2>1. i \in Int /\ j \in Int /\ i # j
    BY <1>1, <1>8
  <2> QED
    BY <2>1
<1> QED
  BY <1>4, <1>5, <1>8, <1>9

\* The outcomes of the first lines are the first outcomes.
LEMMA PrefixKeepsCells ==
  ASSUME NEW t \in Seq(Event), NEW n \in 0 .. Len(t), NEW k \in Key
  PROVE  IsPrefix(CellsOf(SubSeq(t, 1, n), k), CellsOf(t, k))
<1> DEFINE s == SubSeq(t, 1, n)
<1>1. /\ s \in Seq(Event) /\ DOMAIN s = 1 .. n /\ DOMAIN t = 1 .. Len(t) /\ Len(t) \in Nat
      /\ n \in Nat /\ n <= Len(t)
      /\ \A i \in 1 .. n : s[i] = t[i]
  BY LoadedPrefix
<1> HIDE DEF s
<1>2. /\ OutcomesOf(t, k) \subseteq 1 .. Len(t)
      /\ OutcomesOf(s, k) \subseteq 1 .. n
      /\ OutcomesOf(s, k) = {i \in OutcomesOf(t, k) : i <= n}
  BY <1>1 DEF OutcomesOf
<1>3. /\ IsFiniteSet(OutcomesOf(s, k)) /\ Attempts(s, k) \in Nat
      /\ IsFiniteSet(OutcomesOf(t, k)) /\ Attempts(t, k) \in Nat
  BY <1>1, OutcomesAreFinite
<1>4. Attempts(s, k) <= Attempts(t, k)
  BY <1>2, <1>3, FS_Subset DEF Attempts
<1>5. \A i \in OutcomesOf(s, k) : UpTo(s, k, i) = UpTo(t, k, i)
  BY <1>1, <1>2 DEF UpTo
<1>6. ASSUME NEW i \in OutcomesOf(t, k), i > n
      PROVE  Cardinality(UpTo(t, k, i)) > Attempts(s, k)
  <2>1. OutcomesOf(s, k) \in SUBSET UpTo(t, k, i)
    BY <1>1, <1>2, <1>6 DEF UpTo
  <2>2. i \in UpTo(t, k, i) /\ i \notin OutcomesOf(s, k)
    BY <1>1, <1>2, <1>6 DEF UpTo
  <2>3. UpTo(t, k, i) \in SUBSET OutcomesOf(t, k)
    BY DEF UpTo
  <2>4. IsFiniteSet(UpTo(t, k, i)) /\ Cardinality(UpTo(t, k, i)) \in Nat
    BY <1>3, <2>3, FS_Subset, FS_CardinalityType
  <2> QED
    BY <1>3, <2>1, <2>2, <2>4, FS_Subset DEF Attempts
<1>7. ASSUME NEW m \in 1 .. Attempts(s, k)
      PROVE  /\ m \in 1 .. Attempts(t, k)
             /\ CellsOf(s, k)[m] = CellsOf(t, k)[m]
  <2>1. m \in 1 .. Attempts(t, k) /\ m \in Nat
    BY <1>3, <1>4
  <2>2. \A i \in OutcomesOf(t, k) : Cardinality(UpTo(t, k, i)) = m => i <= n
    BY <1>1, <1>2, <1>3, <1>6
  <2>3. \A i : (i \in OutcomesOf(s, k) /\ Cardinality(UpTo(s, k, i)) = m)
               <=> (i \in OutcomesOf(t, k) /\ Cardinality(UpTo(t, k, i)) = m)
    BY <1>2, <1>5, <2>2
  <2>4. OutcomeAt(s, k, m) = OutcomeAt(t, k, m)
    BY <2>3 DEF OutcomeAt
  <2>5. \E i \in OutcomesOf(s, k) : Cardinality(UpTo(s, k, i)) = m
    BY <1>1, OutcomeAtIsThere
  <2>6. OutcomeAt(s, k, m) \in 1 .. n
    BY <1>2, <2>5 DEF OutcomeAt
  <2> QED
    BY <1>1, <2>1, <2>4, <2>6 DEF CellsOf
<1> QED
  <2> DEFINE a == CellsOf(s, k)
             b == CellsOf(t, k)
  <2>1. /\ \A m \in 1 .. Attempts(s, k) : a[m] = b[m]
        /\ a = [m \in 1 .. Attempts(s, k) |-> a[m]]
        /\ b = [m \in 1 .. Attempts(t, k) |-> b[m]]
    BY <1>7 DEF CellsOf
  <2> HIDE DEF a, b
  <2>2. Len(a) = Attempts(s, k) /\ Len(b) = Attempts(t, k)
    BY <1>3, <2>1
  <2>3. SubSeq(a, 1, Len(a)) = SubSeq(b, 1, Len(a))
    <3> DEFINE n1 == Attempts(s, k)
               R == {b[m] : m \in 1 .. Attempts(t, k)}
    <3>1. \A m \in 1 .. n1 : m \in 1 .. Attempts(t, k) /\ a[m] = b[m] /\ b[m] \in R
      BY <1>3, <1>4, <1>7, <2>1
    <3>2. n1 \in Nat /\ 1 \in Int /\ n1 \in Int
      BY <1>3
    <3> HIDE DEF n1, R
    <3>3. /\ SubSeq(a, 1, n1) \in Seq(R) /\ Len(SubSeq(a, 1, n1)) = n1
          /\ \A i \in 1 .. n1 : SubSeq(a, 1, n1)[i] = a[i]
      <4>1. \A i \in 1 .. n1 : a[i] \in R
        BY <3>1
      <4>2. /\ SubSeq(a, 1, n1) \in Seq(R)
            /\ Len(SubSeq(a, 1, n1)) = IF 1 <= n1 THEN n1 - 1 + 1 ELSE 0
            /\ \A i \in 1 .. n1 - 1 + 1 : SubSeq(a, 1, n1)[i] = a[1 + i - 1]
        BY <3>2, <4>1, SubSeqProperties
      <4> QED
        BY <3>2, <4>2
    <3>4. /\ SubSeq(b, 1, n1) \in Seq(R) /\ Len(SubSeq(b, 1, n1)) = n1
          /\ \A i \in 1 .. n1 : SubSeq(b, 1, n1)[i] = b[i]
      <4>1. \A i \in 1 .. n1 : b[i] \in R
        BY <3>1
      <4>2. /\ SubSeq(b, 1, n1) \in Seq(R)
            /\ Len(SubSeq(b, 1, n1)) = IF 1 <= n1 THEN n1 - 1 + 1 ELSE 0
            /\ \A i \in 1 .. n1 - 1 + 1 : SubSeq(b, 1, n1)[i] = b[1 + i - 1]
        BY <3>2, <4>1, SubSeqProperties
      <4> QED
        BY <3>2, <4>2
    <3>5. SubSeq(a, 1, n1) = SubSeq(b, 1, n1)
      BY <3>1, <3>3, <3>4, SeqEqual
    <3> QED
      BY <2>2, <3>5 DEF n1
  <2> QED
    BY <1>4, <2>2, <2>3 DEF IsPrefix, s, a, b

\* In a sound file nothing follows a decision.
LEMMA SoundIsLegal ==
  ASSUME NEW s \in Seq(Event), Sound(s)
  PROVE  Promise!Legal([k \in Key |-> CellsOf(s, k)])
<1> SUFFICES ASSUME NEW k \in Key, NEW n \in DOMAIN CellsOf(s, k), n < Len(CellsOf(s, k))
             PROVE  CellsOf(s, k)[n] \notin Decided
  BY DEF Promise!Legal
<1>a. n \in 1 .. Attempts(s, k) /\ n < Attempts(s, k)
  <2>1. Attempts(s, k) \in Nat
    BY OutcomesAreFinite
  <2>2. DOMAIN CellsOf(s, k) = 1 .. Attempts(s, k)
    BY DEF CellsOf
  <2>3. Len(CellsOf(s, k)) = Attempts(s, k)
    BY <2>1, <2>2
  <2> QED
    BY <2>2, <2>3
<1>1. /\ IsFiniteSet(OutcomesOf(s, k)) /\ Attempts(s, k) \in Nat
      /\ OutcomesOf(s, k) \subseteq Int
  <2>1. OutcomesOf(s, k) \subseteq Int
    BY DEF OutcomesOf
  <2> QED
    BY <2>1, OutcomesAreFinite
<1> DEFINE i == OutcomeAt(s, k, n)
<1>2. i \in OutcomesOf(s, k) /\ Cardinality(UpTo(s, k, i)) = n
  BY <1>a, OutcomeAtIsThere DEF OutcomeAt
<1> HIDE DEF i
<1>3. PICK j \in OutcomesOf(s, k) : j > i
  <2> SUFFICES ASSUME \A j \in OutcomesOf(s, k) : ~(j > i)
               PROVE  FALSE
    OBVIOUS
  <2>1. UpTo(s, k, i) = OutcomesOf(s, k)
    BY <1>1, <1>2 DEF UpTo
  <2> QED
    BY <1>1, <1>2, <1>a, <2>1 DEF Attempts
<1>4. s[i].cell \notin Decided
  BY <1>1, <1>2, <1>3 DEF Sound, FirstFinal
<1> QED
  BY <1>4, <1>a DEF CellsOf, i

\* No step takes away, or changes, a line that is on the disk.
LEMMA DurableStays ==
  ASSUME ~GoesOn, RecordInv, [Next]_vars
  PROVE  /\ synced \in 0 .. synced'
         /\ \A i \in 1 .. synced : lines'[i] = lines[i]
<1>1. /\ TypeOK /\ ObjectInv /\ synced \in Nat /\ synced <= Len(lines)
      /\ lines \in Seq(Event \cup {Garbage}) /\ Len(lines) \in Nat
  BY DEF RecordInv, TypeOK
<1>2. SubSeq(lines, 1, Len(lines)) = lines
  BY <1>1
<1>3. pc = "write" => Cut = lines
  BY <1>1, <1>2 DEF ObjectInv, Cut, TypeOK
<1>4. CASE lines' = lines /\ synced' = synced
  BY <1>1, <1>4
<1>5. CASE Write
  <2>1. lines' = Append(lines, IF TailUnknown THEN Garbage ELSE pending) /\ synced' = synced
    BY <1>3, <1>5 DEF Write
  <2>2. \A i \in 1 .. synced : i \in 1 .. Len(lines)
    BY <1>1
  <2>3. \A i \in 1 .. Len(lines) : lines'[i] = lines[i]
    BY <1>1, <2>1
  <2> QED
    BY <1>1, <2>1, <2>2, <2>3
<1>6. CASE Sync
  BY <1>1, <1>6 DEF Sync
<1>7. CASE PowerLoss
  <2>1. PICK n \in synced .. Len(lines) : lines' = SubSeq(lines, 1, n) /\ synced' = n
    BY <1>7 DEF PowerLoss
  <2>2. n \in Nat /\ n <= Len(lines) /\ synced <= n
    BY <1>1, <2>1
  <2>3. \A i \in 1 .. n : lines'[i] = lines[i]
    BY <1>1, <2>1, <2>2
  <2> QED
    BY <1>1, <2>1, <2>2, <2>3
<1> QED
  BY <1>3, <1>4, <1>5, <1>6, <1>7
     DEF Next, Open, StartAppend, WriteFails, PartWritten, SyncFails, Kill, vars, file

\* record.py:5-14: what a reader is sure to find is only ever extended, attempt
\* by attempt, and never past a decision: the record implements the history it
\* promises.
THEOREM RecordKeepsHistory ==
  ASSUME ~GoesOn, OldFilesStand
  PROVE  Spec => HistoryIsKept
<1> DEFINE Kept == lines \in Seq(Event) /\ Promise!Legal(History)
<1>1. RecordInv => Kept
  <2> SUFFICES ASSUME RecordInv
               PROVE  Kept
    OBVIOUS
  <2>1. /\ lines \in Seq(Event \cup {Garbage}) /\ Readable(lines)
        /\ Sound(lines) /\ synced \in 0 .. Len(lines)
    BY DEF RecordInv, TypeOK, Sound
  <2>2. lines \in Seq(Event)
    <3>1. \A i \in 1 .. Len(lines) : lines[i] \in Event
      BY <2>1 DEF Readable
    <3> QED
      BY <2>1, <3>1
  <2>3. Durable \in Seq(Event) /\ Sound(Durable)
    BY <2>1, <2>2, PrefixIsSound, LoadedPrefix DEF Durable
  <2> QED
    BY <2>2, <2>3, SoundIsLegal DEF History
<1>2. Init /\ Kept => Promise!Init
  BY DEF Promise!Init
<1>3. RecordInv /\ RecordInv' /\ Kept /\ Kept' /\ [Next]_vars => [Promise!Extend]_History
  <2> SUFFICES ASSUME RecordInv, RecordInv', Kept, Kept', [Next]_vars
               PROVE  Promise!Extend
    OBVIOUS
  <2>1. Promise!Legal(History')
    OBVIOUS
  <2>2. ASSUME NEW k \in Key
        PROVE  IsPrefix(History[k], History'[k])
    <3>1. /\ synced \in Nat /\ synced <= Len(lines) /\ Len(lines) \in Nat
          /\ synced' \in Nat /\ synced' <= Len(lines') /\ Len(lines') \in Nat
      BY DEF RecordInv, TypeOK
    <3>2. /\ synced <= synced' /\ \A i \in 1 .. synced : lines'[i] = lines[i]
      BY <3>1, DurableStays
    <3>a. synced \in 0 .. Len(lines) /\ synced' \in 0 .. Len(lines') /\ synced \in 0 .. synced'
      BY <3>1, <3>2
    <3>b. lines \in Seq(Event) /\ lines' \in Seq(Event)
      OBVIOUS
    <3> HIDE DEF Kept
    <3>3. /\ Durable \in Seq(Event) /\ Len(Durable) = synced
          /\ \A i \in 1 .. synced : Durable[i] = lines[i]
      BY <3>a, <3>b, LoadedPrefix DEF Durable
    <3>4. /\ Durable' \in Seq(Event) /\ Len(Durable') = synced'
          /\ \A i \in 1 .. synced' : Durable'[i] = lines'[i]
      <4> DEFINE l == lines'
                 n == synced'
      <4>1. l \in Seq(Event) /\ n \in 0 .. Len(l)
        BY <3>a, <3>b
      <4>2. Durable' = SubSeq(l, 1, n)
        BY DEF Durable
      <4> HIDE DEF l, n
      <4>3. /\ SubSeq(l, 1, n) \in Seq(Event) /\ Len(SubSeq(l, 1, n)) = n
            /\ \A i \in 1 .. n : SubSeq(l, 1, n)[i] = l[i]
        BY <4>1, LoadedPrefix
      <4> QED
        BY <4>2, <4>3 DEF l, n
    <3>5. SubSeq(Durable', 1, synced) = Durable
      <4> DEFINE d == Durable
                 t == Durable'
                 n == synced
      <4>1. /\ d \in Seq(Event) /\ Len(d) = n
            /\ t \in Seq(Event) /\ n \in 0 .. Len(t)
        BY <3>3, <3>4, <3>a
      <4>2. \A i \in 1 .. n : t[i] = d[i]
        BY <3>1, <3>2, <3>3, <3>4
      <4> HIDE DEF d, t, n
      <4>3. /\ SubSeq(t, 1, n) \in Seq(Event) /\ Len(SubSeq(t, 1, n)) = n
            /\ \A i \in 1 .. n : SubSeq(t, 1, n)[i] = t[i]
        BY <4>1, LoadedPrefix
      <4>4. SubSeq(t, 1, n) = d
        BY <4>1, <4>2, <4>3, SeqEqual
      <4> QED
        BY <4>4 DEF d, t, n
    <3>6. IsPrefix(CellsOf(Durable, k), CellsOf(Durable', k))
      <4> DEFINE t == Durable'
                 n == synced
      <4>1. t \in Seq(Event) /\ n \in 0 .. Len(t)
        BY <3>4, <3>a
      <4> HIDE DEF t, n
      <4>2. IsPrefix(CellsOf(SubSeq(t, 1, n), k), CellsOf(t, k))
        BY <4>1, PrefixKeepsCells
      <4> QED
        BY <3>5, <4>2 DEF t, n
    <3> QED
      BY <3>6 DEF History
  <2>3. ASSUME NEW a, NEW b, IsPrefix(a, b)
        PROVE  Promise!IsPrefix(a, b)
    BY <2>3 DEF IsPrefix, Promise!IsPrefix
  <2> QED
    BY <2>1, <2>2, <2>3 DEF Promise!Extend
<1>4. Spec => []RecordInv
  BY RecordInvHolds
<1> QED
  BY <1>1, <1>2, <1>3, <1>4, PTL DEF Spec, HistoryIsKept, Promise!Spec
=============================================================================
