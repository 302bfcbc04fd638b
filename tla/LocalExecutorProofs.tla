------------------------- MODULE LocalExecutorProofs -------------------------
(***************************************************************************)
(* What one call of run() keeps, whatever the interrupts, the crashes and  *)
(* the other hosts: proved for every graph of units, every number of calls *)
(* and of versions, where a process whose run was interrupted makes no     *)
(* other.                                                                  *)
(***************************************************************************)
EXTENDS LocalExecutor, TLAPS

\* A thread is of the call that goes on, for a unit that it has not settled; it is the
\* one that run() waits for under its hash, and the hash is what its unit reads now.
Owns(w) ==
  /\ w[1] = runs /\ done[w[2]] = Unsettled
  /\ \A x \in Upstream[w[2]] : done[x].state \in Produced
  /\ thread[w].hash = HashOf(w[2])
  /\ thread[w].hash \in DOMAIN running /\ running[thread[w].hash] = w[2]
Owners ==
  /\ IF run = "off" THEN Alive = {} ELSE runs > 0
  /\ \A w \in Alive : Owns(w)

\* Who holds a claim is about to register it, or is registered; and behind the release
\* of all, who is given one late finds cancel set.
ClaimsAreKnown ==
  /\ \A w \in held : \/ At(w, "held")
                     \/ w \in claims /\ Pc(w) \in {"check", "entry", "clean", "forget"}
  /\ run \in {"stopping", "stopped"} => cancel
  /\ run = "stopped" => \A w \in held : Pc(w) \in {"held", "check"}

\* What a thread is at has its intent, until its work directory is gone.
Journaled == {"hold", "held", "check", "entry", "copy", "install", "post", "clean"}
IntentsStand ==
  /\ \A w \in Worker : Pc(w) \in Journaled => thread[w].hash \in journal
  /\ \A w \in Worker : At(w, "forget") => thread[w].hash \notin DOMAIN work
  /\ WorkIsJournaled

\* What a thread installed, and what it tells that it produced, is what is stored; what
\* is settled read only what was.
Stored(h, v) == h \in DOMAIN local /\ local[h] = v
ThreadsTell ==
  \A w \in Worker :
    /\ At(w, "post") => Stored(thread[w].hash, thread[w].out)
    /\ Pc(w) \in {"clean", "forget", "end"} /\ thread[w].end.state \in Produced
         => Stored(thread[w].hash, thread[w].end.result)
ReadsStand ==
  \A u \in Unit : done[u].state \in Produced =>
    /\ \A x \in Upstream[u] : done[x].state \in Produced
    /\ Stored(HashOf(u), done[u].result)
ResultsStand == ThreadsTell /\ ReadsStand

\* Who installs has what it installs.
Types ==
  /\ TypeOK /\ thread \in [Worker -> Thread]
  /\ \A w \in Worker : Pc(w) \in {"install", "post"} => thread[w].out \in Version

\* The inductive invariant.
ExecutorInv == Types /\ Owners /\ ClaimsAreKnown /\ IntentsStand /\ ResultsStand

-----------------------------------------------------------------------------
\* No thread runs at first, and nothing is stored.
LEMMA ExecutorInit == Init => ExecutorInv
<1> SUFFICES ASSUME Init PROVE ExecutorInv
  OBVIOUS
<1> USE ExecutorAssumption DEF Init
<1>1. Unsettled \in Settled /\ Unsettled.state = "no"
  BY DEF Unsettled, End, Settled
<1>2. NoThread \in Thread
  BY DEF Thread
<1>3. Types
  <2>1. done \in [Unit -> Settled] /\ thread \in [Worker -> Thread]
    BY <1>1, <1>2
  <2>t. runs \in 0 .. MaxRuns
    BY MaxRuns \in Nat
  <2>2. /\ Range(running) = {} /\ Range(work) = {}
        /\ Range(local) = {} /\ Range(shared) = {}
    BY DEF Range
  <2>3. \A w \in Worker : thread[w] \in Thread /\ Pc(w) = "none"
    BY <1>2 DEF Pc, NoThread
  <2>4. TypeOK
    BY <2>1, <2>t, <2>2, <2>3 DEF TypeOK
  <2> QED
    BY <2>1, <2>3, <2>4 DEF Types
<1>4. Owners
  BY DEF Owners, Alive
<1>5. ClaimsAreKnown
  BY DEF ClaimsAreKnown
<1>6. IntentsStand
  BY DEF IntentsStand, Pc, At, NoThread, Journaled, WorkIsJournaled
<1>7. ResultsStand
  BY <1>1 DEF ResultsStand, ThreadsTell, ReadsStand, Pc, At, NoThread, Produced
<1> QED
  BY <1>3, <1>4, <1>5, <1>6, <1>7 DEF ExecutorInv

-----------------------------------------------------------------------------
\* A thread that is at a place has a hash, and what it tells is a settlement.
LEMMA AtAPlace ==
  ASSUME Types, NEW w \in Worker, thread[w] # NoThread
  PROVE  /\ thread[w] \in [pc : {"place", "run", "hold", "held", "check", "entry", "copy", "install",
                                  "post", "clean", "forget", "end", "escaped"},
                            hash : Hash, out : Version \cup {NoVersion}, end : Settled]
         /\ w \in Alive
BY DEF Types, TypeOK, Thread, Alive

\* What is not at a place is no thread.
LEMMA NowhereIsNone ==
  ASSUME Types, NEW w \in Worker, Pc(w) # "none"
  PROVE  thread[w] # NoThread
BY DEF Pc, NoThread

\* A worker's step is its thread's alone, which stays one of the same hash; and it is
\* nothing to run().
LEMMA StepsAreTheirOwn ==
  ASSUME Types, NEW w \in Worker, Step(w) \/ Checkpoint(w)
  PROVE  /\ UNCHANGED <<runs, run, done, running, cancel>>
         /\ thread[w] # NoThread
         /\ thread' \in [Worker -> Thread] /\ thread'[w] # NoThread
         /\ thread'[w].hash = thread[w].hash
         /\ \A v \in Worker \ {w} : thread'[v] = thread[v]
<1> DEFINE Places == {"place", "run", "hold", "held", "check", "entry", "copy", "install",
                      "post", "clean", "forget", "end", "escaped"}
           Goal == /\ thread' \in [Worker -> Thread] /\ thread'[w] # NoThread
                   /\ thread'[w].hash = thread[w].hash
                   /\ \A v \in Worker \ {w} : thread'[v] = thread[v]
<1>1. thread[w] # NoThread
  BY NowhereIsNone DEF Step, Place, Journal, Hold, HoldRefuses, Register, Check, Checkpoint, EntryReturns,
     EntryFails, EntryEscapes, Copy, Install, Post, Clean, Forget, At
<1>2. thread \in [Worker -> Thread]
  BY DEF Types
<1>t. thread[w] \in [pc : Places, hash : Hash, out : Version \cup {NoVersion}, end : Settled]
  BY <1>1, AtAPlace
<1>3. ASSUME NEW pc \in Places, Goto(w, pc) PROVE Goal
  BY <1>2, <1>3, <1>t DEF Goto, Thread, NoThread
<1>4. ASSUME NEW pc \in Places, NEW state, NEW v, End(state, v) \in Settled, Ends(w, pc, state, v)
      PROVE Goal
  BY <1>2, <1>4, <1>t DEF Ends, Thread, NoThread
<1>5. ASSUME thread' = thread PROVE Goal
  BY <1>1, <1>2, <1>5
<1>6. ASSUME NEW out \in Version, thread' = [thread EXCEPT ![w].pc = "install", ![w].out = out]
      PROVE Goal
  BY <1>2, <1>6, <1>t DEF Thread, NoThread
<1>7. ASSUME NEW state \in {"offered", "refused", "failed"} PROVE End(state, NoVersion) \in Settled
  BY DEF End, Settled
<1>8. ASSUME Elsewhere(w) PROVE Goal
  BY <1>4, <1>7, <1>8 DEF Elsewhere
<1>9. ASSUME At(w, "post"), Ends(w, "clean", "ran", thread[w].out) PROVE Goal
  <2>1. thread[w].out \in Version
    BY <1>9 DEF Types, At
  <2>2. End("ran", thread[w].out) \in Settled
    BY <2>1 DEF End, Settled, Produced
  <2> QED
    BY <1>4, <1>9, <2>2
<1>f. ASSUME NEW pc \in Places, Ends(w, pc, "failed", NoVersion) PROVE Goal
  BY <1>4, <1>7, <1>f
<1> HIDE DEF Goal
<1>10. ASSUME Install(w) PROVE Goal
  BY <1>3, <1>f, <1>10 DEF Install
<1>11. ASSUME Post(w) PROVE Goal
  BY <1>9, <1>f, <1>11 DEF Post
<1>12. ASSUME Copy(w) PROVE Goal
  <2>1. ASSUME OutputsThere(w) PROVE work[thread[w].hash] \in Version
    BY <2>1 DEF OutputsThere
  <2>2. CASE OutputsThere(w)
    BY <1>12, <2>1, <2>2, <1>6 DEF Copy
  <2>3. CASE ~OutputsThere(w)
    BY <1>12, <2>3, <1>3, <1>f DEF Copy
  <2> QED
    BY <2>2, <2>3
<1>13. Goal
  BY <1>3, <1>f, <1>5, <1>8, <1>10, <1>11, <1>12 DEF Step, Place, Journal, Hold, HoldRefuses, Register, Check,
     Checkpoint, EntryReturns, EntryFails, EntryEscapes, Clean, Forget
<1>14. UNCHANGED <<runs, run, done, running, cancel>>
  BY DEF Step, Place, Journal, Hold, HoldRefuses, Register, Check, Checkpoint, EntryReturns,
     EntryFails, EntryEscapes, Copy, Install, Post, Clean, Forget
<1> QED
  BY <1>1, <1>13, <1>14 DEF Goal

\* A table of hashes, and what it has of each.
Table(f, T) == DOMAIN f \subseteq Hash /\ Range(f) \subseteq T

\* What is put at a hash is there, and nothing else changes.
LEMMA PutAtOne ==
  ASSUME NEW f, NEW h, NEW v
  PROVE  /\ DOMAIN Put(f, h, v) = DOMAIN f \cup {h}
         /\ Put(f, h, v)[h] = v
         /\ \A x \in DOMAIN f \ {h} : Put(f, h, v)[x] = f[x]
BY DEF Put

\* A table that one is put into stays one.
LEMMA PutStays ==
  ASSUME NEW f, NEW T, Table(f, T), NEW h \in Hash, NEW v \in T
  PROVE  Table(Put(f, h, v), T)
BY DEF Table, Put, Range

\* What is taken away is gone, and nothing else changes.
LEMMA WithoutOne ==
  ASSUME NEW f, NEW h
  PROVE  /\ DOMAIN Without(f, h) = DOMAIN f \ {h}
         /\ \A x \in DOMAIN f \ {h} : Without(f, h)[x] = f[x]
BY DEF Without, Restrict

\* And so does one that one is taken from.
LEMMA WithoutStays ==
  ASSUME NEW f, NEW T, Table(f, T), NEW h
  PROVE  Table(Without(f, h), T)
BY DEF Table, Without, Restrict, Range

\* A unit that reads what was produced has a hash.
LEMMA ReadyUnitsHaveAHash ==
  ASSUME Types, NEW u \in Unit, \A x \in Upstream[u] : done[x].state \in Produced
  PROVE  HashOf(u) \in Hash
<1>1. Upstream[u] \subseteq Unit
  BY ExecutorAssumption
<1>2. \A x \in Upstream[u] : done[x].result \in Version
  BY <1>1 DEF Types, TypeOK, Settled, Produced
<1> QED
  BY <1>2 DEF HashOf, Hash

-----------------------------------------------------------------------------
\* Every step keeps the types: an entry's outputs are a version, and what is installed
\* or posted is one.
LEMMA TypesNext == Types /\ Owners /\ [Next]_vars => Types'
<1> SUFFICES ASSUME Types, Owners, [Next]_vars PROVE Types'
  OBVIOUS
<1> DEFINE Files == /\ journal' \subseteq Hash
                    /\ Table(work', Content)
                    /\ Table(local', Version) /\ Table(shared', Version)
           Waits == /\ thread' \in [Worker -> Thread]
                    /\ \A w \in Worker : thread'[w].pc \in {"install", "post"} => thread'[w].out \in Version
           Calls == /\ runs' \in 0 .. MaxRuns /\ run' \in {"off", "on", "stopping", "stopped"}
                    /\ done' \in [Unit -> Settled]
                    /\ Table(running', Unit)
                    /\ cancel' \in BOOLEAN
           Claims == claims' \subseteq Worker /\ held' \subseteq Worker
<1>t. TypeOK
  BY DEF Types
<1>p. /\ Table(running, Unit) /\ Table(work, Content)
      /\ Table(local, Version) /\ Table(shared, Version)
  BY <1>t DEF TypeOK, Table
<1>1. ASSUME UNCHANGED files PROVE Files
  BY <1>t, <1>p, <1>1 DEF TypeOK, files
<1>2. ASSUME UNCHANGED thread PROVE Waits
  BY <1>2 DEF Types, Pc
<1>3. ASSUME UNCHANGED <<runs, run, done, running, cancel>> PROVE Calls
  BY <1>3, <1>p, <1>t DEF TypeOK
<1>4. ASSUME UNCHANGED <<claims, held>> PROVE Claims
  BY <1>4, <1>t DEF TypeOK
<1>5. ASSUME NEW w \in Worker, thread' = [thread EXCEPT ![w] = NoThread] PROVE Waits
  BY <1>5 DEF Types, Pc, NoThread, Thread
<1>6. ASSUME Files, Waits, Calls, Claims PROVE Types'
  BY <1>6 DEF Types, TypeOK, Pc, Table
<1> HIDE DEF Files, Waits, Calls, Claims
<1>7. ASSUME Run PROVE Types'
  <2>1. Files /\ Waits
    BY <1>1, <1>2, <1>7 DEF Run
  <2>2. Claims
    BY <1>7, <1>t DEF Run, Claims, TypeOK
  <2>3. Unsettled \in Settled
    BY DEF Unsettled, End, Settled
  <2>4. Table(running', Unit)
    BY <1>7 DEF Run, Restrict, Range, Table
  <2>r. runs' \in 0 .. MaxRuns /\ run' = "on" /\ cancel' = FALSE
    BY <1>7, <1>t, ExecutorAssumption DEF Run, TypeOK
  <2>5. Calls
    BY <1>7, <2>r, <2>3, <2>4 DEF Run, Calls
  <2> QED
    BY <1>6, <2>1, <2>2, <2>5
<1>w. ASSUME run = "on", NEW u \in Unit PROVE <<runs, u>> \in Worker
  BY <1>w, <1>t DEF Owners, TypeOK, Worker
<1>8. ASSUME NEW u \in Unit, Skip(u) PROVE Types'
  <2>1. End("skipped", NoVersion) \in Settled
    BY DEF End, Settled
  <2>2. Calls
    BY <1>8, <1>t, <1>p, <2>1 DEF Skip, Settle, Calls, TypeOK
  <2> QED
    BY <1>1, <1>2, <1>4, <1>6, <1>8, <2>2 DEF Skip
<1>9. ASSUME NEW u \in Unit, Cached(u) PROVE Types'
  <2> DEFINE h == HashOf(u)
  <2>0. \A x \in Upstream[u] : done[x].state \in Produced
    BY <1>9 DEF Cached, Blocked
  <2>1. h \in Hash
    BY <2>0, ReadyUnitsHaveAHash
  <2> HIDE DEF h
  <2>2. Table(local', Version) /\ h \in DOMAIN local'
    <3>1. CASE h \in DOMAIN local /\ UNCHANGED local
      BY <3>1, <1>p
    <3>2. CASE h \in DOMAIN shared \ DOMAIN local /\ local' = Put(local, h, shared[h])
      <4>1. shared[h] \in Version
        BY <3>2, <1>p DEF Table, Range
      <4>p. Table(Put(local, h, shared[h]), Version)
        BY <4>1, <2>1, <1>p, PutStays
      <4>2. Table(local', Version)
        BY <3>2, <4>p
      <4>3. h \in DOMAIN local'
        BY <3>2 DEF Put
      <4> QED
        BY <4>2, <4>3
    <3> QED
      BY <1>9, <3>1, <3>2 DEF Cached, h
  <2>3. local'[h] \in Version
    BY <2>2 DEF Range, Table
  <2>4. End("cached", local'[h]) \in Settled
    BY <2>3 DEF End, Settled, Produced
  <2>5. Calls
    BY <1>9, <1>t, <1>p, <2>4 DEF Cached, Settle, Calls, TypeOK, h
  <2>6. Files
    BY <1>9, <1>t, <1>p, <2>2 DEF Cached, Files, TypeOK
  <2> QED
    BY <1>2, <1>4, <1>6, <1>9, <2>5, <2>6 DEF Cached
<1>10. ASSUME NEW u \in Unit, Start(u) PROVE Types'
  <2> DEFINE h == HashOf(u)
             k == [pc |-> "place", hash |-> h, out |-> NoVersion, end |-> Unsettled]
  <2>0. \A x \in Upstream[u] : done[x].state \in Produced
    BY <1>10 DEF Start, Blocked
  <2>1. h \in Hash
    BY <2>0, ReadyUnitsHaveAHash
  <2>2. running' = Put(running, h, u) /\ thread' = [thread EXCEPT ![<<runs, u>>] = k]
    BY <1>10 DEF Start
  <2>3. k \in Thread /\ k.pc = "place"
    BY <2>1 DEF Thread, Unsettled, End, Settled
  <2> HIDE DEF h, k
  <2>4. Waits
    BY <2>2, <2>3 DEF Waits, Types, Pc
  <2>5. Table(running', Unit)
    BY <1>p, <2>1, <2>2, PutStays
  <2>6. Calls
    BY <1>10, <1>t, <1>p, <2>5 DEF Start, Calls, TypeOK
  <2> QED
    BY <1>1, <1>4, <1>6, <1>10, <2>4, <2>6 DEF Start
<1>11. ASSUME NEW u \in Unit, Collect(u) PROVE Types'
  <2> DEFINE w == <<runs, u>>
  <2>1. w \in Worker
    BY <1>11, <1>w DEF Collect
  <2> HIDE DEF w
  <2>2. /\ thread[w].pc = "end" /\ running' = Without(running, thread[w].hash)
        /\ done' = [done EXCEPT ![u] = thread[w].end]
        /\ thread' = [thread EXCEPT ![w] = NoThread]
    BY <1>11 DEF Collect, Settle, w
  <2>3. thread[w].end \in Settled
    BY <2>1, <2>2, NowhereIsNone, AtAPlace DEF Pc
  <2>4. Table(running', Unit)
    BY <2>2, <1>p, WithoutStays
  <2>5. Calls
    BY <1>11, <1>t, <1>p, <2>2, <2>3, <2>4 DEF Collect, Calls, TypeOK
  <2> QED
    BY <1>1, <1>4, <1>5, <1>6, <1>11, <2>1, <2>2, <2>5 DEF Collect
<1>12. ASSUME NEW u \in Unit, Reraise(u) PROVE Types'
  <2>1. <<runs, u>> \in Worker
    BY <1>12, <1>w DEF Reraise
  <2>2. Calls
    BY <1>12, <1>t, <1>p DEF Reraise, Calls, TypeOK
  <2> QED
    BY <1>1, <1>4, <1>5, <1>6, <1>12, <2>1, <2>2 DEF Reraise
<1>13. ASSUME Return \/ Interrupt PROVE Types'
  <2>1. Calls
    BY <1>13, <1>t, <1>p DEF Return, Interrupt, Calls, TypeOK
  <2> QED
    BY <1>1, <1>2, <1>4, <1>6, <1>13, <2>1 DEF Return, Interrupt
<1>14. ASSUME ReleaseAll PROVE Types'
  <2>1. Calls /\ Claims
    BY <1>14, <1>t, <1>p DEF ReleaseAll, Calls, Claims, TypeOK
  <2> QED
    BY <1>1, <1>2, <1>6, <1>14, <2>1 DEF ReleaseAll
<1>15. ASSUME Crash PROVE Types'
  <2>1. Calls /\ Claims
    BY <1>15, <1>t, <1>p DEF Crash, Calls, Claims, TypeOK
  <2>2. Waits
    BY <1>15 DEF Crash, Waits, NoThread, Thread
  <2> QED
    BY <1>1, <1>6, <1>15, <2>1, <2>2 DEF Crash
<1>16. ASSUME OtherHostPosts PROVE Types'
  <2>1. PICK h \in Hash, v \in Version : shared' = Put(shared, h, v)
    BY <1>16 DEF OtherHostPosts
  <2>2. Table(shared', Version)
    BY <2>1, <1>p, PutStays
  <2>3. Files
    BY <1>16, <1>t, <1>p, <2>2 DEF OtherHostPosts, Files, TypeOK
  <2> QED
    BY <1>2, <1>3, <1>4, <1>6, <1>16, <2>3 DEF OtherHostPosts
<1>17. ASSUME NEW w \in Worker, Step(w) \/ Checkpoint(w) PROVE Types'
  <2> DEFINE t == thread[w]
             h == t.hash
  <2>1. /\ thread' \in [Worker -> Thread] /\ t # NoThread
        /\ \A v \in Worker \ {w} : thread'[v] = thread[v]
    BY <1>17, StepsAreTheirOwn
  <2>2. h \in Hash /\ t.out \in Version \cup {NoVersion} /\ w \in Alive
    BY <2>1, AtAPlace
  <2>3. Calls
    BY <1>3, <1>17, StepsAreTheirOwn
  <2> HIDE DEF t, h
  <2>4. thread'[w].pc \in {"install", "post"} => thread'[w].out \in Version
    <3>1. t \in [pc : {"place", "run", "hold", "held", "check", "entry", "copy", "install",
                      "post", "clean", "forget", "end", "escaped"},
                hash : Hash, out : Version \cup {NoVersion}, end : Settled]
      BY <2>1, AtAPlace DEF t
    <3>2. ASSUME Copy(w), OutputsThere(w) PROVE thread'[w].out \in Version
      BY <3>1, <3>2, <2>1 DEF Copy, OutputsThere, Types, t
    <3>3. ASSUME Copy(w), ~OutputsThere(w) PROVE thread'[w].pc \notin {"install", "post"}
      BY <3>1, <3>3, <2>1 DEF Copy, Ends, Goto, Types, t
    <3>4. ASSUME Install(w) PROVE thread'[w].pc \in {"post", "clean"} /\ thread'[w].out = t.out /\ t.out \in Version
      BY <3>1, <3>4, <2>1 DEF Install, Ends, Goto, Types, t, At, Pc
    <3>5. ASSUME Elsewhere(w) PROVE thread'[w].pc = "end"
      BY <3>1, <3>5, <2>1 DEF Elsewhere, Ends, Types, t
    <3>6. ASSUME Post(w) PROVE thread'[w].pc = "clean"
      BY <3>1, <3>6, <2>1 DEF Post, Ends, Types, t
    <3>7. ASSUME NEW pc, pc \notin {"install", "post"}, Goto(w, pc) \/ Ends(w, pc, "failed", NoVersion)
          PROVE  thread'[w].pc \notin {"install", "post"}
      BY <3>1, <3>7, <2>1 DEF Goto, Ends, Types, t
    <3>8. ASSUME Checkpoint(w) PROVE thread'[w].pc \notin {"install", "post"}
      BY <3>8 DEF Checkpoint, At, Pc
    <3> QED
      BY <1>17, <3>2, <3>3, <3>4, <3>5, <3>6, <3>7, <3>8
         DEF Step, Place, Journal, Hold, HoldRefuses, Register, Check, EntryReturns, EntryFails,
             EntryEscapes, Clean, Forget
  <2>5. Claims
    BY <1>17, <1>t DEF Claims, TypeOK, Step, Place, Journal, Hold, HoldRefuses, Register, Check, Checkpoint,
       EntryReturns, EntryFails, EntryEscapes, Copy, Install, Post, Clean, Forget
  <2>6. Files
    <3>1. \A v \in Content : Table(Put(work, h, v), Content)
      BY <1>p, <2>2, PutStays DEF h
    <3>2. t.out \in Version => Table(Put(local, h, t.out), Version) /\ Table(Put(shared, h, t.out), Version)
      BY <1>p, <2>2, PutStays DEF h
    <3>3. Table(Without(work, h), Content)
      BY <1>p, WithoutStays
    <3>4. ASSUME UNCHANGED <<journal, local, shared>>, Table(work', Content) PROVE Files
      BY <3>4, <1>t, <1>p DEF Files, TypeOK
    <3>5. ASSUME Journal(w) PROVE Files
      BY <3>1, <3>5, <1>t, <1>p, <2>2 DEF Journal, Files, TypeOK, Content, h, t
    <3>6. ASSUME Checkpoint(w) PROVE Files
      BY <3>1, <3>4, <3>6 DEF Checkpoint, Content, h, t
    <3>7. ASSUME EntryReturns(w) PROVE Files
      BY <3>1, <3>4, <3>7, <1>p DEF EntryReturns, Content, h, t
    <3>8. ASSUME Install(w) PROVE Files
      BY <3>2, <3>8, <1>t, <1>p DEF Install, Files, TypeOK, Types, At, h, t
    <3>9. ASSUME Post(w) PROVE Files
      BY <3>2, <3>9, <1>t, <1>p DEF Post, Files, TypeOK, Types, At, h, t
    <3>10. ASSUME Clean(w) PROVE Files
      BY <3>3, <3>4, <3>10 DEF Clean, h, t
    <3>11. ASSUME Forget(w) PROVE Files
      BY <3>11, <1>t, <1>p DEF Forget, Files, TypeOK
    <3> QED
      BY <1>1, <1>17, <3>5, <3>6, <3>7, <3>8, <3>9, <3>10, <3>11
         DEF Step, Place, Hold, HoldRefuses, Register, Check, EntryFails, EntryEscapes, Copy
  <2>7. Waits
    BY <2>1, <2>4 DEF Waits, Types, Pc
  <2> QED
    BY <1>6, <2>3, <2>5, <2>6, <2>7
<1>18. ASSUME UNCHANGED vars PROVE Types'
  BY <1>1, <1>2, <1>3, <1>4, <1>6, <1>18 DEF vars
<1> QED
  BY <1>7, <1>8, <1>9, <1>10, <1>11, <1>12, <1>13, <1>14, <1>15, <1>16, <1>17, <1>18 DEF Next, Caller

-----------------------------------------------------------------------------
\* A worker is of one call and one unit.
LEMMA WorkersArePairs ==
  ASSUME NEW w \in Worker
  PROVE  w[2] \in Unit /\ w = <<w[1], w[2]>>
BY DEF Worker

\* No two threads are of one hash.
LEMMA OneThreadAHash ==
  ASSUME Owners, NEW v \in Alive, NEW w \in Alive, thread[v].hash = thread[w].hash
  PROVE  v = w
<1>1. v \in Worker /\ w \in Worker
  BY DEF Alive
<1>2. v[1] = w[1] /\ v[2] = w[2]
  BY DEF Owners, Owns
<1> QED
  BY <1>1, <1>2, WorkersArePairs

\* What a unit that settles changes of what others read: nothing, where all of it was there.
LEMMA HashesStay ==
  ASSUME Types, NEW u \in Unit, \A x \in Upstream[u] : done[x].state \in Produced,
         NEW v \in Unit, done[v] = Unsettled, NEW end, done' = [done EXCEPT ![v] = end]
  PROVE  /\ \A x \in Upstream[u] : done'[x] = done[x]
         /\ HashOf(u)' = HashOf(u)
<1>1. Upstream[u] \subseteq Unit
  BY ExecutorAssumption
<1>2. v \notin Upstream[u]
  BY DEF Unsettled, End, Produced
<1>3. \A x \in Upstream[u] : done'[x] = done[x]
  BY <1>1, <1>2 DEF Types, TypeOK
<1> QED
  BY <1>3 DEF HashOf

\* The threads that go on are still those that run() waits for.
LEMMA OwnersStay ==
  ASSUME Owners, UNCHANGED <<runs, done, running>>,
         \A w \in Worker : thread'[w] # NoThread =>
           thread[w] # NoThread /\ thread'[w].hash = thread[w].hash,
         IF run' = "off" THEN Alive' = {} ELSE run # "off"
  PROVE  Owners'
<1>1. \A w \in Alive' : w \in Worker /\ w \in Alive /\ thread'[w].hash = thread[w].hash
  BY DEF Alive
<1>2. \A w \in Worker : HashOf(w[2])' = HashOf(w[2])
  BY DEF HashOf
<1>3. \A w \in Alive' : Owns(w)'
  BY <1>1, <1>2 DEF Owners, Owns
<1>4. IF run' = "off" THEN Alive' = {} ELSE runs' > 0
  BY DEF Owners
<1> QED
  BY <1>3, <1>4 DEF Owners

\* Every step leaves the threads to the call that goes on.
LEMMA OwnersNext == ASSUME ~RunsAgain PROVE Types /\ Owners /\ [Next]_vars => Owners'
<1> SUFFICES ASSUME ~RunsAgain, Types, Owners, [Next]_vars PROVE Owners'
  OBVIOUS
<1>t. TypeOK /\ thread \in [Worker -> Thread]
  BY DEF Types
<1>w. ASSUME run # "off", NEW u \in Unit PROVE <<runs, u>> \in Worker /\ runs > 0
  BY <1>w, <1>t DEF Owners, TypeOK, Worker
<1>1. ASSUME Run PROVE Owners'
  <2>1. Alive' = {}
    BY <1>1 DEF Run, Owners, Alive
  <2>2. runs' > 0
    BY <1>1, <1>t DEF Run, TypeOK
  <2> QED
    BY <2>1, <2>2 DEF Owners
<1>2. ASSUME NEW u \in Unit, NEW end, Ready(u), Settle(u, end), UNCHANGED <<runs, run, running, thread>>
      PROVE Owners'
  <2>1. run' = "on" /\ runs' > 0
    BY <1>2, <1>w DEF Ready
  <2>2. ASSUME NEW w \in Alive' PROVE Owns(w)'
    <3>1. w \in Worker /\ w \in Alive /\ w[2] \in Unit /\ w = <<w[1], w[2]>>
      BY <1>2, <2>2, WorkersArePairs DEF Alive
    <3>2. w[2] # u
      BY <1>2, <3>1 DEF Owners, Owns, Ready
    <3>3. done[u] = Unsettled /\ done' = [done EXCEPT ![u] = end]
      BY <1>2 DEF Ready, Settle
    <3>4. \A x \in Upstream[w[2]] : done[x].state \in Produced
      BY <3>1 DEF Owners, Owns
    <3>5. HashOf(w[2])' = HashOf(w[2]) /\ \A x \in Upstream[w[2]] : done'[x] = done[x]
      BY <3>1, <3>3, <3>4, HashesStay
    <3>6. done'[w[2]] = done[w[2]]
      BY <3>1, <3>2, <3>3, <1>t DEF TypeOK
    <3> QED
      BY <1>2, <3>1, <3>5, <3>6 DEF Owners, Owns
  <2> QED
    BY <2>1, <2>2 DEF Owners
<1>3. ASSUME NEW u \in Unit, Skip(u) \/ Cached(u) PROVE Owners'
  BY <1>2, <1>3 DEF Skip, Cached
<1>4. ASSUME NEW u \in Unit, Start(u) PROVE Owners'
  <2> DEFINE h == HashOf(u)
             k == [pc |-> "place", hash |-> h, out |-> NoVersion, end |-> Unsettled]
  <2>1. /\ run' = "on" /\ runs' > 0 /\ UNCHANGED <<runs, done>>
        /\ h \notin DOMAIN running /\ running' = Put(running, h, u)
        /\ thread' = [thread EXCEPT ![<<runs, u>>] = k]
        /\ done[u] = Unsettled /\ \A x \in Upstream[u] : done[x].state \in Produced
    BY <1>4, <1>w DEF Start, Ready, Blocked
  <2>2. <<runs, u>> \in Worker
    BY <1>4, <1>w DEF Start, Ready
  <2>3. k.hash = h
    OBVIOUS
  <2>4. HashOf(u)' = HashOf(u)
    BY <2>1 DEF HashOf
  <2> HIDE DEF h, k
  <2>r. /\ DOMAIN running' = DOMAIN running \cup {h} /\ running'[h] = u
        /\ \A x \in DOMAIN running \ {h} : running'[x] = running[x]
    BY <2>1 DEF Put
  <2>5. ASSUME NEW w \in Alive' PROVE Owns(w)'
    <3>1. CASE w = <<runs, u>>
      <4>1. w[1] = runs /\ w[2] = u
        BY <3>1
      <4>2. thread'[w].hash = h
        BY <2>1, <2>2, <2>3, <3>1, <1>t
      <4>3. h = HashOf(u)
        BY DEF h
      <4> QED
        BY <2>1, <2>4, <2>r, <4>1, <4>2, <4>3 DEF Owns
    <3>2. CASE w # <<runs, u>>
      <4>1. w \in Worker /\ w \in Alive /\ thread'[w] = thread[w]
        BY <2>1, <2>5, <3>2, <1>t DEF Alive
      <4>2. HashOf(w[2])' = HashOf(w[2])
        BY <2>1 DEF HashOf
      <4>3. Owns(w)
        BY <4>1 DEF Owners
      <4>4. thread[w].hash \in DOMAIN running'
            /\ running'[thread[w].hash] = running[thread[w].hash]
        BY <2>1, <2>r, <4>3 DEF Owns
      <4> QED
        BY <2>1, <4>1, <4>2, <4>3, <4>4 DEF Owns
    <3> QED
      BY <3>1, <3>2
  <2> QED
    BY <2>1, <2>5 DEF Owners
<1>5. ASSUME NEW u \in Unit, Collect(u) PROVE Owners'
  <2> DEFINE w == <<runs, u>>
  <2>1. w \in Worker /\ run' = "on" /\ runs' > 0
    BY <1>5, <1>w DEF Collect
  <2>i. w[1] = runs /\ w[2] = u
    OBVIOUS
  <2> HIDE DEF w
  <2>2. /\ thread[w].pc = "end" /\ running' = Without(running, thread[w].hash)
        /\ done' = [done EXCEPT ![u] = thread[w].end]
        /\ thread' = [thread EXCEPT ![w] = NoThread] /\ runs' = runs
    BY <1>5 DEF Collect, Settle, w
  <2>3. w \in Alive
    BY <2>1, <2>2 DEF Alive, NoThread
  <2>4. done[u] = Unsettled
    BY <2>3, <2>i DEF Owners, Owns
  <2>5. ASSUME NEW v \in Alive' PROVE Owns(v)'
    <3>1. v \in Worker /\ v \in Alive /\ v # w /\ thread'[v] = thread[v]
      BY <2>1, <2>2, <2>5, <1>t DEF Alive
    <3>2. Owns(v)
      BY <3>1 DEF Owners
    <3>3. v[2] \in Unit /\ v[2] # u
      BY <3>1, <3>2, <2>1, <2>i, WorkersArePairs DEF Owns
    <3>4. HashOf(v[2])' = HashOf(v[2]) /\ \A x \in Upstream[v[2]] : done'[x] = done[x]
      BY <2>2, <2>4, <3>2, <3>3, HashesStay DEF Owns
    <3>5. done'[v[2]] = done[v[2]]
      BY <2>2, <3>3, <1>t DEF TypeOK
    <3>6. thread[v].hash # thread[w].hash
      BY <3>1, <2>3, OneThreadAHash
    <3>7. thread[v].hash \in DOMAIN running' /\ running'[thread[v].hash] = running[thread[v].hash]
      BY <2>2, <3>2, <3>6 DEF Owns, Without, Restrict
    <3> QED
      BY <2>2, <3>1, <3>2, <3>4, <3>5, <3>7 DEF Owns
  <2> QED
    BY <2>1, <2>5 DEF Owners
<1>6. ASSUME NEW u \in Unit, Reraise(u) PROVE Owners'
  <2>1. <<runs, u>> \in Worker
    BY <1>6, <1>w DEF Reraise
  <2>2. \A w \in Worker : thread'[w] # NoThread => thread'[w] = thread[w]
    BY <1>6, <2>1, <1>t DEF Reraise
  <2> QED
    BY <1>6, <2>2, OwnersStay DEF Reraise
<1>7. ASSUME Return PROVE Owners'
  <2>1. \A w \in Worker : thread[w] = NoThread
    BY <1>7, WorkersArePairs DEF Return, Owners, Owns, Alive
  <2>2. Alive' = {}
    BY <1>7, <2>1 DEF Return, Alive
  <2> QED
    BY <1>7, <2>2, OwnersStay DEF Return
<1>8. ASSUME Interrupt \/ ReleaseAll \/ OtherHostPosts \/ UNCHANGED vars PROVE Owners'
  <2>1. UNCHANGED <<runs, done, running, thread>>
    BY <1>8 DEF Interrupt, ReleaseAll, OtherHostPosts, vars
  <2>2. IF run' = "off" THEN Alive' = {} ELSE run # "off"
    BY <1>8 DEF Interrupt, ReleaseAll, OtherHostPosts, vars, Owners, Alive
  <2> QED
    BY <2>1, <2>2, OwnersStay
<1>9. ASSUME Crash PROVE Owners'
  BY <1>9, OwnersStay DEF Crash, Alive
<1>10. ASSUME NEW w \in Worker, Step(w) \/ Checkpoint(w) PROVE Owners'
  <2>1. /\ UNCHANGED <<runs, run, done, running>> /\ thread[w] # NoThread
        /\ thread'[w].hash = thread[w].hash
        /\ \A v \in Worker \ {w} : thread'[v] = thread[v]
    BY <1>10, StepsAreTheirOwn
  <2>2. run # "off"
    BY <2>1 DEF Owners, Alive
  <2>3. \A v \in Worker : thread'[v] # NoThread =>
           thread[v] # NoThread /\ thread'[v].hash = thread[v].hash
    BY <2>1
  <2> QED
    BY <2>1, <2>2, <2>3, OwnersStay
<1> QED
  BY <1>1, <1>3, <1>4, <1>5, <1>6, <1>7, <1>8, <1>9, <1>10 DEF Next, Caller

-----------------------------------------------------------------------------
\* A thread that goes on is at its new place, and what it carries stays.
LEMMA GotoGoes ==
  ASSUME Types, NEW w \in Worker, Pc(w) # "none", NEW pc, Goto(w, pc)
  PROVE  /\ Pc(w)' = pc /\ thread'[w].hash = thread[w].hash
         /\ thread'[w].out = thread[w].out /\ thread'[w].end = thread[w].end
<1>1. thread[w] \in [pc : {"place", "run", "hold", "held", "check", "entry", "copy", "install",
                            "post", "clean", "forget", "end", "escaped"},
                      hash : Hash, out : Version \cup {NoVersion}, end : Settled]
  BY NowhereIsNone, AtAPlace
<1> QED
  BY <1>1 DEF Types, Goto, Pc

\* So is one that knows how its unit ends.
LEMMA EndsGoes ==
  ASSUME Types, NEW w \in Worker, Pc(w) # "none", NEW pc, NEW state, NEW v, Ends(w, pc, state, v)
  PROVE  /\ Pc(w)' = pc /\ thread'[w].hash = thread[w].hash
         /\ thread'[w].out = thread[w].out
         /\ thread'[w].end.state = state /\ thread'[w].end.result = v
<1>1. thread[w] \in [pc : {"place", "run", "hold", "held", "check", "entry", "copy", "install",
                            "post", "clean", "forget", "end", "escaped"},
                      hash : Hash, out : Version \cup {NoVersion}, end : Settled]
  BY NowhereIsNone, AtAPlace
<1> QED
  BY <1>1 DEF Types, Ends, End, Pc

\* What cannot run here ends, as offered or refused.
LEMMA ElsewhereEnds ==
  ASSUME Types, NEW w \in Worker, Pc(w) # "none", Elsewhere(w)
  PROVE  Pc(w)' = "end" /\ thread'[w].end.state \in {"offered", "refused"}
BY EndsGoes DEF Elsewhere

\* Every step leaves the claims known: a thread registers its own before it looks at
\* cancel, which is set before the registered ones are released.
LEMMA ClaimsNext ==
  ASSUME ~RunsAgain PROVE Types /\ Owners /\ ClaimsAreKnown /\ [Next]_vars => ClaimsAreKnown'
<1> SUFFICES ASSUME ~RunsAgain, Types, Owners, ClaimsAreKnown, [Next]_vars PROVE ClaimsAreKnown'
  OBVIOUS
<1>t. TypeOK /\ thread \in [Worker -> Thread]
  BY DEF Types
<1>h. ASSUME NEW w \in held PROVE w \in Worker /\ w \in Alive /\ Pc(w) \in {"held", "check", "entry", "clean", "forget"}
  <2>1. w \in Worker
    BY <1>t DEF TypeOK
  <2>2. Pc(w) \in {"held", "check", "entry", "clean", "forget"}
    BY DEF ClaimsAreKnown, At
  <2> QED
    BY <2>1, <2>2, NowhereIsNone DEF Alive
<1>1. ASSUME run = "off", held' = held, run' = "on" PROVE ClaimsAreKnown'
  <2>1. held' = {}
    BY <1>1, <1>h DEF Owners
  <2> QED
    BY <1>1, <2>1 DEF ClaimsAreKnown
<1>2. ASSUME \A w \in held' : w \in held /\ Pc(w)' = Pc(w), UNCHANGED claims,
             run' \in {"stopping", "stopped"} => cancel',
             run' = "stopped" => run = "stopped"
      PROVE ClaimsAreKnown'
  BY <1>2 DEF ClaimsAreKnown, At
<1>3. ASSUME Run PROVE ClaimsAreKnown'
  BY <1>1, <1>3 DEF Run
<1>4. ASSUME UNCHANGED <<run, cancel, thread, claims, held>> PROVE ClaimsAreKnown'
  BY <1>2, <1>4 DEF ClaimsAreKnown, Pc
<1>w. ASSUME run = "on", NEW u \in Unit PROVE <<runs, u>> \in Worker
  BY <1>w, <1>t DEF Owners, TypeOK, Worker
<1>5. ASSUME NEW w \in Worker, w \notin held, NEW k, thread' = [thread EXCEPT ![w] = k],
             UNCHANGED <<claims, held>>,
             run' \in {"stopping", "stopped"} => cancel',
             run' = "stopped" => run = "stopped"
      PROVE ClaimsAreKnown'
  <2>1. \A v \in held' : v \in held /\ Pc(v)' = Pc(v)
    BY <1>5, <1>t, <1>h DEF Pc
  <2> QED
    BY <1>2, <1>5, <2>1
<1>6. ASSUME NEW u \in Unit, Start(u) PROVE ClaimsAreKnown'
  <2> DEFINE k == [pc |-> "place", hash |-> HashOf(u), out |-> NoVersion, end |-> Unsettled]
  <2>1. thread' = [thread EXCEPT ![<<runs, u>>] = k] /\ UNCHANGED <<claims, held, run, cancel>> /\ run = "on"
    BY <1>6 DEF Start, Ready
  <2> HIDE DEF k
  <2>2. <<runs, u>> \in Worker /\ <<runs, u>> \notin held
    BY <1>6, <1>w, <1>h DEF Start, Ready
  <2> QED
    BY <1>5, <2>1, <2>2
<1>7. ASSUME NEW u \in Unit, Collect(u) \/ Reraise(u) PROVE ClaimsAreKnown'
  <2>1. run = "on" /\ thread' = [thread EXCEPT ![<<runs, u>>] = NoThread] /\ UNCHANGED <<claims, held>>
    BY <1>7 DEF Collect, Reraise
  <2>2. Pc(<<runs, u>>) \in {"end", "escaped"}
    BY <1>7 DEF Collect, Reraise, Pc
  <2>3. <<runs, u>> \in Worker /\ <<runs, u>> \notin held
    BY <1>w, <2>1, <2>2, <1>h
  <2>4. (run' \in {"stopping", "stopped"} => cancel') /\ run' # "stopped"
    BY <1>7 DEF Collect, Reraise
  <2> QED
    BY <1>5, <2>1, <2>3, <2>4
<1>8. ASSUME Return \/ Interrupt PROVE ClaimsAreKnown'
  BY <1>2, <1>8 DEF Return, Interrupt, Pc
<1>9. ASSUME ReleaseAll PROVE ClaimsAreKnown'
  <2>1. /\ run = "stopping" /\ run' = "stopped" /\ held' = held \ claims
        /\ UNCHANGED <<cancel, thread, claims>>
    BY <1>9 DEF ReleaseAll
  <2>2. \A w \in held' : w \in held /\ Pc(w)' = Pc(w) /\ At(w, "held")
    BY <2>1 DEF ClaimsAreKnown, Pc
  <2> QED
    BY <2>1, <2>2 DEF ClaimsAreKnown, At
<1>10. ASSUME Crash PROVE ClaimsAreKnown'
  BY <1>10 DEF Crash, ClaimsAreKnown
<1>11. ASSUME NEW w \in Worker, Step(w) \/ Checkpoint(w) PROVE ClaimsAreKnown'
  <2>1. /\ UNCHANGED <<run, cancel>> /\ Pc(w) # "none"
        /\ \A v \in Worker \ {w} : thread'[v] = thread[v]
    BY <1>11, StepsAreTheirOwn DEF Step, Place, Journal, Hold, HoldRefuses, Register, Check, Checkpoint,
       EntryReturns, EntryFails, EntryEscapes, Copy, Install, Post, Clean, Forget, At
  <2>2. \A pc : Goto(w, pc) => Pc(w)' = pc
    BY <2>1, GotoGoes
  <2>3. \A pc, state, v : Ends(w, pc, state, v) => Pc(w)' = pc
    BY <2>1, EndsGoes
  <2> DEFINE Known == w \in held' =>
                        /\ \/ At(w, "held")'
                           \/ w \in claims' /\ Pc(w)' \in {"check", "entry", "clean", "forget"}
                        /\ run = "stopped" => Pc(w)' \in {"held", "check"}
  <2>4. ASSUME Known, claims \subseteq claims', held' \subseteq held \cup {w} PROVE ClaimsAreKnown'
    <3>1. \A v \in held' \ {w} : v \in held /\ Pc(v)' = Pc(v)
      BY <2>1, <2>4, <1>h DEF Pc
    <3> QED
      BY <2>1, <2>4, <3>1 DEF ClaimsAreKnown, At
  <2>5. ASSUME w \notin held' PROVE Known
    BY <2>5
  <2>k. w \in held => /\ \/ At(w, "held")
                         \/ w \in claims /\ Pc(w) \in {"check", "entry", "clean", "forget"}
                      /\ run = "stopped" => Pc(w) \in {"held", "check"} /\ cancel
    BY DEF ClaimsAreKnown
  <2>6. CASE Place(w) \/ Journal(w) \/ HoldRefuses(w) \/ Copy(w) \/ Install(w) \/ Post(w)
    <3>1. held' = held /\ claims' = claims /\ Pc(w) \in {"place", "run", "hold", "copy", "install", "post"}
      BY <2>6 DEF Place, Journal, HoldRefuses, Copy, Install, Post, At
    <3> QED
      BY <3>1, <2>4, <2>5, <1>h
  <2>7. CASE Hold(w)
    BY <2>2, <2>4, <2>7 DEF Hold, At
  <2>8. CASE Register(w)
    BY <2>2, <2>4, <2>8 DEF Register
  <2>9. CASE Check(w)
    <3>1. CASE cancel
      BY <2>4, <2>5, <2>9, <3>1 DEF Check
    <3>2. CASE ~cancel
      BY <2>2, <2>4, <2>9, <2>k, <3>2 DEF Check, At
    <3> QED
      BY <3>1, <3>2
  <2>10. CASE EntryReturns(w) \/ EntryEscapes(w) \/ Forget(w)
    BY <2>4, <2>5, <2>10 DEF EntryReturns, EntryEscapes, Forget
  <2>11. CASE EntryFails(w)
    <3>1. Pc(w)' = "clean" /\ Pc(w) = "entry" /\ UNCHANGED <<claims, held>>
      BY <2>3, <2>11 DEF EntryFails, At
    <3> QED
      BY <2>4, <2>k, <3>1 DEF At
  <2>12. CASE Clean(w)
    <3>1. Pc(w)' = "forget" /\ Pc(w) = "clean" /\ UNCHANGED <<claims, held>>
      BY <2>2, <2>12 DEF Clean, At
    <3> QED
      BY <2>4, <2>k, <3>1 DEF At
  <2>13. CASE Checkpoint(w)
    BY <1>4, <2>13 DEF Checkpoint
  <2> QED
    BY <1>11, <2>6, <2>7, <2>8, <2>9, <2>10, <2>11, <2>12, <2>13 DEF Step
<1> QED
  BY <1>3, <1>4, <1>6, <1>7, <1>8, <1>9, <1>10, <1>11 DEF Next, Caller, Skip, Cached, OtherHostPosts, vars

-----------------------------------------------------------------------------
\* Every step leaves the intents: one is there before its work directory, and goes
\* after it, of a hash that is no other thread's.
LEMMA IntentsNext == Types /\ Owners /\ IntentsStand /\ [Next]_vars => IntentsStand'
<1> SUFFICES ASSUME Types, Owners, IntentsStand, [Next]_vars PROVE IntentsStand'
  OBVIOUS
<1>t. TypeOK /\ thread \in [Worker -> Thread]
  BY DEF Types
<1>1. ASSUME UNCHANGED <<journal, work>>,
             \A w \in Worker : Pc(w)' \in Journaled \cup {"forget"} => thread'[w] = thread[w]
      PROVE IntentsStand'
  BY <1>1 DEF IntentsStand, Pc, At, WorkIsJournaled
<1>2. ASSUME UNCHANGED <<journal, work, thread>> PROVE IntentsStand'
  BY <1>1, <1>2
<1>w. ASSUME run = "on", NEW u \in Unit PROVE <<runs, u>> \in Worker
  BY <1>w, <1>t DEF Owners, TypeOK, Worker
<1>3. ASSUME NEW w \in Worker, thread'[w].pc \in {"none", "place"}, UNCHANGED <<journal, work>>,
             \A v \in Worker \ {w} : thread'[v] = thread[v]
      PROVE IntentsStand'
  BY <1>1, <1>3 DEF Journaled, Pc
<1>4. ASSUME NEW u \in Unit, Start(u) PROVE IntentsStand'
  <2> DEFINE k == [pc |-> "place", hash |-> HashOf(u), out |-> NoVersion, end |-> Unsettled]
             w == <<runs, u>>
  <2>1. thread' = [thread EXCEPT ![w] = k] /\ UNCHANGED <<journal, work>> /\ run = "on"
    BY <1>4 DEF Start, Ready, files
  <2>2. k.pc = "place"
    OBVIOUS
  <2>3. w \in Worker
    BY <2>1, <1>w
  <2> HIDE DEF k, w
  <2>4. thread'[w].pc = "place" /\ \A v \in Worker \ {w} : thread'[v] = thread[v]
    BY <2>1, <2>2, <2>3, <1>t
  <2> QED
    BY <1>3, <2>1, <2>3, <2>4
<1>5. ASSUME NEW u \in Unit, Collect(u) \/ Reraise(u) PROVE IntentsStand'
  <2> DEFINE w == <<runs, u>>
  <2>1. /\ run = "on" /\ thread' = [thread EXCEPT ![w] = NoThread]
        /\ UNCHANGED <<journal, work>>
    BY <1>5 DEF Collect, Reraise, files
  <2>2. NoThread.pc = "none"
    BY DEF NoThread
  <2>3. w \in Worker
    BY <2>1, <1>w
  <2> HIDE DEF w
  <2>4. thread'[w].pc = "none" /\ \A v \in Worker \ {w} : thread'[v] = thread[v]
    BY <2>1, <2>2, <2>3, <1>t
  <2> QED
    BY <1>3, <2>1, <2>3, <2>4
<1>6. ASSUME Crash PROVE IntentsStand'
  BY <1>1, <1>6 DEF Crash, files, Pc, NoThread, Journaled
<1>7. ASSUME NEW w \in Worker, Step(w) \/ Checkpoint(w) PROVE IntentsStand'
  <2> DEFINE h == thread[w].hash
  <2>1. /\ Pc(w) # "none" /\ thread'[w].hash = h
        /\ \A v \in Worker \ {w} : thread'[v] = thread[v]
    BY <1>7, StepsAreTheirOwn DEF Step, Place, Journal, Hold, HoldRefuses, Register, Check, Checkpoint,
       EntryReturns, EntryFails, EntryEscapes, Copy, Install, Post, Clean, Forget, At
  <2>2. \A pc : Goto(w, pc) => Pc(w)' = pc
    BY <2>1, GotoGoes
  <2>3. \A pc, state, v : Ends(w, pc, state, v) => Pc(w)' = pc
    BY <2>1, EndsGoes
  <2>i. /\ Pc(w) \in Journaled => h \in journal
        /\ Pc(w) = "forget" => h \notin DOMAIN work
        /\ WorkIsJournaled
    BY DEF IntentsStand, At
  <2>u. \A v \in Worker \ {w} : Pc(v) \in Journaled \cup {"forget"} => thread[v].hash # h
    <3>1. w \in Alive /\ \A v \in Worker : Pc(v) # "none" => v \in Alive
      BY <2>1, NowhereIsNone DEF Alive
    <3> QED
      BY <3>1, OneThreadAHash DEF Journaled
  <2> HIDE DEF h
  <2>4. ASSUME \A x \in Hash \ {h} : x \in journal => x \in journal',
               \A x \in Hash \ {h} : x \in DOMAIN work' => x \in DOMAIN work,
               Pc(w)' \in Journaled => h \in journal',
               Pc(w)' = "forget" => h \notin DOMAIN work',
               WorkIsJournaled'
        PROVE IntentsStand'
    <3>1. \A v \in Worker \ {w} : Pc(v)' = Pc(v) /\ thread'[v].hash = thread[v].hash
      BY <2>1 DEF Pc
    <3>2. \A v \in Worker : Pc(v) # "none" => thread[v].hash \in Hash
      BY NowhereIsNone, AtAPlace
    <3>3. ASSUME NEW v \in Worker \ {w}, Pc(v) \in Journaled
          PROVE thread[v].hash \in journal'
      <4>1. thread[v].hash \in journal /\ thread[v].hash # h /\ thread[v].hash \in Hash
        BY <3>3, <3>2, <2>u DEF IntentsStand, Journaled
      <4> QED
        BY <2>4, <4>1
    <3>4. ASSUME NEW v \in Worker \ {w}, Pc(v) = "forget"
          PROVE thread[v].hash \notin DOMAIN work'
      <4>1. thread[v].hash \notin DOMAIN work /\ thread[v].hash # h /\ thread[v].hash \in Hash
        BY <3>4, <3>2, <2>u DEF IntentsStand, At
      <4> QED
        BY <2>4, <4>1
    <3> QED
      BY <2>1, <2>4, <3>1, <3>3, <3>4 DEF IntentsStand, At
  <2>5. ASSUME UNCHANGED <<journal, work>>, Pc(w) \in Journaled \/ Pc(w)' \notin Journaled, Pc(w)' # "forget"
        PROVE IntentsStand'
    BY <2>4, <2>5, <2>i DEF WorkIsJournaled
  <2>6. CASE Place(w)
    <3>1. UNCHANGED <<journal, work>> /\ Pc(w)' \in {"run", "end"}
      BY <2>2, <2>1, <2>6, ElsewhereEnds DEF Place, files
    <3> QED
      BY <2>5, <3>1 DEF Journaled
  <2>7. CASE Journal(w)
    <3>1. Pc(w)' = "hold" /\ journal' = journal \cup {h}
          /\ work' = IF h \in DOMAIN work THEN work ELSE Put(work, h, "empty")
      BY <2>2, <2>7 DEF Journal, h
    <3>2. DOMAIN work' = DOMAIN work \cup {h} /\ \A x \in DOMAIN work \ {h} : work'[x] = work[x]
      BY <3>1 DEF Put
    <3>3. WorkIsJournaled'
      BY <3>1, <3>2, <2>i DEF WorkIsJournaled
    <3> QED
      BY <2>4, <3>1, <3>2, <3>3
  <2>8. CASE Hold(w) \/ HoldRefuses(w) \/ Register(w) \/ Check(w) \/ EntryFails(w) \/ EntryEscapes(w)
    <3>1. UNCHANGED <<journal, work>> /\ Pc(w) \in Journaled
      BY <2>8 DEF Hold, HoldRefuses, Register, Check, EntryFails, EntryEscapes, files, At, Journaled
    <3>2. Pc(w)' # "forget"
      BY <2>1, <2>2, <2>3, <2>8, ElsewhereEnds DEF Hold, HoldRefuses, Register, Check, EntryFails, EntryEscapes
    <3> QED
      BY <2>5, <3>1, <3>2
  <2>9. CASE Copy(w) \/ Install(w) \/ Post(w)
    <3>1. UNCHANGED <<journal, work>> /\ Pc(w) \in Journaled
      BY <2>9 DEF Copy, Install, Post, files, At, Journaled
    <3>2. ASSUME Copy(w) PROVE Pc(w)' # "forget"
      <4>1. CASE OutputsThere(w)
        <5>1. thread[w] \in [pc : {"place", "run", "hold", "held", "check", "entry", "copy", "install",
                                   "post", "clean", "forget", "end", "escaped"},
                             hash : Hash, out : Version \cup {NoVersion}, end : Settled]
          BY <2>1, NowhereIsNone, AtAPlace
        <5> QED
          BY <3>2, <4>1, <5>1, <1>t DEF Copy, Pc
      <4>2. CASE ~OutputsThere(w)
        BY <2>2, <2>3, <3>2, <4>2 DEF Copy
      <4> QED
        BY <4>1, <4>2
    <3>3. Pc(w)' # "forget"
      BY <2>2, <2>3, <2>9, <3>2 DEF Install, Post
    <3> QED
      BY <2>5, <3>1, <3>3
  <2>10. ASSUME NEW v, h \in DOMAIN work, work' = Put(work, h, v), UNCHANGED journal,
                Pc(w) \in Journaled, Pc(w)' # "forget"
         PROVE IntentsStand'
    <3>1. DOMAIN work' = DOMAIN work /\ \A x \in DOMAIN work \ {h} : work'[x] = work[x]
      BY <2>10 DEF Put
    <3>2. WorkIsJournaled'
      BY <3>1, <2>10, <2>i DEF WorkIsJournaled
    <3> QED
      BY <2>4, <2>10, <2>i, <3>1, <3>2
  <2>11. CASE EntryReturns(w)
    <3>1. Pc(w) \in Journaled /\ UNCHANGED journal
      BY <2>11 DEF EntryReturns, At, Journaled
    <3>2. Pc(w)' # "forget"
      BY <2>2, <2>3, <2>11 DEF EntryReturns
    <3>3. CASE UNCHANGED work
      BY <2>5, <3>1, <3>2, <3>3
    <3>4. CASE h \in DOMAIN work /\ \E v \in Version : work' = Put(work, h, v)
      BY <2>10, <3>1, <3>2, <3>4
    <3> QED
      BY <2>11, <3>3, <3>4 DEF EntryReturns, h
  <2>12. CASE Checkpoint(w)
    <3>1. /\ h \in DOMAIN work /\ work' = Put(work, h, "checkpoint") /\ UNCHANGED journal
          /\ Pc(w) = "entry" /\ Pc(w)' = "entry"
      BY <2>12 DEF Checkpoint, At, Pc, h
    <3> QED
      BY <2>10, <3>1 DEF Journaled
  <2>13. CASE Clean(w)
    <3>1. Pc(w)' = "forget" /\ UNCHANGED journal /\ work' = Without(work, h)
      BY <2>2, <2>13 DEF Clean, h
    <3>2. DOMAIN work' = DOMAIN work \ {h} /\ \A x \in DOMAIN work \ {h} : work'[x] = work[x]
      BY <3>1 DEF Without, Restrict
    <3>3. WorkIsJournaled'
      BY <3>1, <3>2, <2>i DEF WorkIsJournaled
    <3> QED
      BY <2>4, <3>1, <3>2, <3>3 DEF Journaled
  <2>14. CASE Forget(w)
    <3>1. /\ Pc(w) = "forget" /\ Pc(w)' = "end" /\ UNCHANGED work
          /\ journal' = journal \ {h}
      BY <2>2, <2>14 DEF Forget, At, h
    <3>2. WorkIsJournaled'
      BY <3>1, <2>i DEF WorkIsJournaled
    <3> QED
      BY <2>4, <3>1, <3>2 DEF Journaled
  <2> QED
    BY <1>7, <2>6, <2>7, <2>8, <2>9, <2>11, <2>12, <2>13, <2>14 DEF Step
<1> QED
  BY <1>2, <1>4, <1>5, <1>6, <1>7 DEF Next, Caller, Run, Skip, Cached, Return, Interrupt, ReleaseAll,
     OtherHostPosts, files, vars

-----------------------------------------------------------------------------
\* A table keeps what it has where what is put is at a hash that it has not.
LEMMA PutKeeps ==
  ASSUME NEW f, NEW h, NEW v, h \notin DOMAIN f
  PROVE  \A x \in DOMAIN f : x \in DOMAIN Put(f, h, v) /\ Put(f, h, v)[x] = f[x]
BY DEF Put

\* In both tiers what is stored stays.
LEMMA StoresKeep ==
  [Next]_vars =>
    /\ \A h \in DOMAIN local : h \in DOMAIN local' /\ local'[h] = local[h]
    /\ \A h \in DOMAIN shared : h \in DOMAIN shared' /\ shared'[h] = shared[h]
<1> SUFFICES ASSUME [Next]_vars
             PROVE  /\ \A h \in DOMAIN local : h \in DOMAIN local' /\ local'[h] = local[h]
                    /\ \A h \in DOMAIN shared : h \in DOMAIN shared' /\ shared'[h] = shared[h]
  OBVIOUS
<1> DEFINE Local == \A h \in DOMAIN local : h \in DOMAIN local' /\ local'[h] = local[h]
           Shared == \A h \in DOMAIN shared : h \in DOMAIN shared' /\ shared'[h] = shared[h]
<1>1. UNCHANGED local => Local
  OBVIOUS
<1>2. UNCHANGED shared => Shared
  OBVIOUS
<1>3. ASSUME NEW h, NEW v, h \notin DOMAIN local, local' = Put(local, h, v) PROVE Local
  BY <1>3, PutKeeps
<1>4. ASSUME NEW h, NEW v, h \notin DOMAIN shared, shared' = Put(shared, h, v) PROVE Shared
  BY <1>4, PutKeeps
<1> HIDE DEF Local, Shared
<1>5. ASSUME NEW u \in Unit, Cached(u) PROVE Local /\ Shared
  BY <1>1, <1>2, <1>3, <1>5 DEF Cached
<1>6. ASSUME NEW w \in Worker, Install(w) PROVE Local /\ Shared
  BY <1>1, <1>2, <1>3, <1>6 DEF Install
<1>7. ASSUME NEW w \in Worker, Post(w) PROVE Local /\ Shared
  BY <1>1, <1>2, <1>4, <1>7 DEF Post
<1>8. ASSUME OtherHostPosts PROVE Local /\ Shared
  BY <1>1, <1>4, <1>8 DEF OtherHostPosts
<1>9. ASSUME Next, \A u \in Unit : ~Cached(u), \A w \in Worker : ~Install(w) /\ ~Post(w), ~OtherHostPosts
      PROVE UNCHANGED <<local, shared>>
  BY <1>9 DEF Next, Run, Caller, Skip, Start, Collect, Reraise, Return, Interrupt, ReleaseAll, Crash,
     Step, Place, Journal, Hold, HoldRefuses, Register, Check, Checkpoint, EntryReturns, EntryFails,
     EntryEscapes, Copy, Clean, Forget, files
<1>10. UNCHANGED vars => UNCHANGED <<local, shared>>
  BY DEF vars, files
<1>11. Local /\ Shared
  BY <1>1, <1>2, <1>5, <1>6, <1>7, <1>8, <1>9, <1>10
<1> QED
  BY <1>11 DEF Local, Shared

\* Every step leaves what is told and settled stored: an install puts it there before a
\* thread tells, and a unit settles with what its thread told or what it found.
LEMMA ResultsNext == Types /\ Owners /\ ResultsStand /\ [Next]_vars => ResultsStand'
<1> SUFFICES ASSUME Types, Owners, ResultsStand, [Next]_vars PROVE ResultsStand'
  OBVIOUS
<1>t. TypeOK /\ thread \in [Worker -> Thread]
  BY DEF Types
<1>s. \A h, v : h \in DOMAIN local /\ local[h] = v => h \in DOMAIN local' /\ local'[h] = v
  BY StoresKeep
<1>1. ASSUME \A w \in Worker : Pc(w)' \in {"post", "clean", "forget", "end"} => thread'[w] = thread[w]
      PROVE ThreadsTell'
  BY <1>1, <1>s DEF ResultsStand, ThreadsTell, Stored, Pc, At
<1>2. UNCHANGED done => ReadsStand'
  <2> SUFFICES ASSUME UNCHANGED done, NEW u \in Unit, done'[u].state \in Produced
               PROVE (\A x \in Upstream[u] : done'[x].state \in Produced) /\ Stored(HashOf(u), done[u].result)'
    BY DEF ReadsStand
  <2>1. HashOf(u)' = HashOf(u)
    BY DEF HashOf
  <2>2. (\A x \in Upstream[u] : done[x].state \in Produced) /\ Stored(HashOf(u), done[u].result)
    BY DEF ResultsStand, ReadsStand
  <2> QED
    BY <1>s, <2>1, <2>2 DEF Stored
<1>3. ASSUME NEW u \in Unit, NEW end, done' = [done EXCEPT ![u] = end], done[u] = Unsettled,
             end.state \in Produced => /\ \A x \in Upstream[u] : done[x].state \in Produced
                                       /\ HashOf(u) \in DOMAIN local' /\ local'[HashOf(u)] = end.result
      PROVE ReadsStand'
  <2> SUFFICES ASSUME NEW v \in Unit, done'[v].state \in Produced
               PROVE (\A x \in Upstream[v] : done'[x].state \in Produced) /\ Stored(HashOf(v), done[v].result)'
    BY DEF ReadsStand
  <2>1. \A x \in Upstream[v] : done[x].state \in Produced
    <3>1. CASE v = u
      BY <1>3, <3>1, <1>t DEF TypeOK
    <3>2. CASE v # u
      BY <1>3, <3>2, <1>t DEF TypeOK, ResultsStand, ReadsStand
    <3> QED
      BY <3>1, <3>2
  <2>2. HashOf(v)' = HashOf(v) /\ \A x \in Upstream[v] : done'[x] = done[x]
    BY <1>3, <2>1, HashesStay
  <2>3. HashOf(v) \in DOMAIN local' /\ local'[HashOf(v)] = done'[v].result
    <3>1. CASE v = u
      BY <1>3, <3>1, <1>t DEF TypeOK
    <3>2. CASE v # u
      <4>1. done'[v] = done[v]
        BY <1>3, <3>2, <1>t DEF TypeOK
      <4>2. HashOf(v) \in DOMAIN local /\ local[HashOf(v)] = done[v].result
        BY <4>1 DEF ResultsStand, ReadsStand, Stored
      <4> QED
        BY <1>s, <4>1, <4>2
    <3> QED
      BY <3>1, <3>2
  <2> QED
    BY <2>1, <2>2, <2>3 DEF Stored
<1>4. ASSUME UNCHANGED thread PROVE ThreadsTell'
  BY <1>1, <1>4
<1>w. ASSUME run = "on", NEW u \in Unit PROVE <<runs, u>> \in Worker
  BY <1>w, <1>t DEF Owners, TypeOK, Worker
<1>5. ASSUME NEW w \in Worker, thread'[w].pc \in {"none", "place"},
             \A v \in Worker \ {w} : thread'[v] = thread[v]
      PROVE ThreadsTell'
  BY <1>1, <1>5 DEF Pc
<1>6. ASSUME Run PROVE ResultsStand'
  <2>1. \A u \in Unit : done'[u].state \notin Produced
    BY <1>6 DEF Run, Unsettled, End, Produced
  <2>2. ReadsStand'
    BY <2>1 DEF ReadsStand
  <2> QED
    BY <1>4, <1>6, <2>2 DEF Run, ResultsStand
<1>7. ASSUME NEW u \in Unit, Skip(u) PROVE ResultsStand'
  <2>1. ReadsStand'
    BY <1>3, <1>7 DEF Skip, Settle, Ready, End, Produced
  <2> QED
    BY <1>4, <1>7, <2>1 DEF Skip, ResultsStand
<1>8. ASSUME NEW u \in Unit, Cached(u) PROVE ResultsStand'
  <2> DEFINE h == HashOf(u)
             end == End("cached", local'[h])
  <2>1. /\ done[u] = Unsettled /\ done' = [done EXCEPT ![u] = end]
        /\ \A x \in Upstream[u] : done[x].state \in Produced
    BY <1>8 DEF Cached, Ready, Blocked, Settle
  <2>2. h \in DOMAIN local'
    BY <1>8 DEF Cached, Put
  <2>3. end.result = local'[h]
    BY DEF End
  <2> HIDE DEF end
  <2>4. ReadsStand'
    BY <1>3, <2>1, <2>2, <2>3
  <2> QED
    BY <1>4, <1>8, <2>4 DEF Cached, ResultsStand
<1>9. ASSUME NEW u \in Unit, Start(u) PROVE ResultsStand'
  <2> DEFINE k == [pc |-> "place", hash |-> HashOf(u), out |-> NoVersion, end |-> Unsettled]
             w == <<runs, u>>
  <2>1. thread' = [thread EXCEPT ![w] = k] /\ UNCHANGED done /\ run = "on"
    BY <1>9 DEF Start, Ready
  <2>2. k.pc = "place"
    OBVIOUS
  <2>3. w \in Worker
    BY <2>1, <1>w
  <2> HIDE DEF k, w
  <2>4. thread'[w].pc = "place" /\ \A v \in Worker \ {w} : thread'[v] = thread[v]
    BY <2>1, <2>2, <2>3, <1>t
  <2> QED
    BY <1>2, <1>5, <2>1, <2>3, <2>4 DEF ResultsStand
<1>10. ASSUME NEW u \in Unit, Collect(u) \/ Reraise(u) PROVE ResultsStand'
  <2> DEFINE w == <<runs, u>>
  <2>1. run = "on" /\ thread' = [thread EXCEPT ![w] = NoThread] /\ Pc(w) \in {"end", "escaped"}
    BY <1>10 DEF Collect, Reraise, Pc
  <2>2. NoThread.pc = "none"
    BY DEF NoThread
  <2>3. w \in Worker /\ w[1] = runs /\ w[2] = u
    BY <2>1, <1>w
  <2>e. Collect(u) => done' = [done EXCEPT ![u] = thread[w].end] /\ Pc(w) = "end"
    BY DEF Collect, Settle, Pc
  <2> HIDE DEF w
  <2>4. thread'[w].pc = "none" /\ \A v \in Worker \ {w} : thread'[v] = thread[v]
    BY <2>1, <2>2, <2>3, <1>t
  <2>5. w \in Alive
    BY <2>1, <2>3, NowhereIsNone DEF Alive
  <2>6. /\ done[u] = Unsettled /\ thread[w].hash = HashOf(u)
        /\ \A x \in Upstream[u] : done[x].state \in Produced
    BY <2>3, <2>5 DEF Owners, Owns
  <2>7. ASSUME Collect(u) PROVE ReadsStand'
    <3>1. thread[w].end.state \in Produced => Stored(thread[w].hash, thread[w].end.result)
      BY <2>e, <2>3, <2>7 DEF ResultsStand, ThreadsTell
    <3>2. thread[w].end.state \in Produced =>
            HashOf(u) \in DOMAIN local' /\ local'[HashOf(u)] = thread[w].end.result
      BY <1>s, <3>1, <2>6 DEF Stored
    <3> QED
      BY <1>3, <2>e, <2>6, <2>7, <3>2
  <2>8. Reraise(u) => ReadsStand'
    BY <1>2 DEF Reraise
  <2> QED
    BY <1>5, <1>10, <2>3, <2>4, <2>7, <2>8 DEF ResultsStand
<1>11. ASSUME Return \/ Interrupt \/ ReleaseAll \/ OtherHostPosts \/ UNCHANGED vars PROVE ResultsStand'
  <2>1. UNCHANGED <<done, thread>>
    BY <1>11 DEF Return, Interrupt, ReleaseAll, OtherHostPosts, vars
  <2> QED
    BY <1>2, <1>4, <2>1 DEF ResultsStand
<1>12. ASSUME Crash PROVE ResultsStand'
  <2>1. ThreadsTell'
    BY <1>1, <1>12 DEF Crash, Pc, NoThread
  <2> QED
    BY <1>2, <1>12, <2>1 DEF Crash, ResultsStand
<1>13. ASSUME NEW w \in Worker, Step(w) \/ Checkpoint(w) PROVE ResultsStand'
  <2>1. /\ UNCHANGED done /\ Pc(w) # "none" /\ thread'[w].hash = thread[w].hash
        /\ \A v \in Worker \ {w} : thread'[v] = thread[v]
    BY <1>13, StepsAreTheirOwn DEF Step, Place, Journal, Hold, HoldRefuses, Register, Check, Checkpoint,
       EntryReturns, EntryFails, EntryEscapes, Copy, Install, Post, Clean, Forget, At
  <2> DEFINE h == thread[w].hash
             Tells == /\ thread'[w].pc = "post" => h \in DOMAIN local' /\ local'[h] = thread'[w].out
                      /\ thread'[w].pc \in {"clean", "forget", "end"} /\ thread'[w].end.state \in Produced
                           => h \in DOMAIN local' /\ local'[h] = thread'[w].end.result
  <2>2. ASSUME Tells PROVE ThreadsTell'
    <3>1. ASSUME NEW v \in Worker \ {w}
          PROVE  /\ At(v, "post")' => Stored(thread[v].hash, thread[v].out)'
                 /\ Pc(v)' \in {"clean", "forget", "end"} /\ thread'[v].end.state \in Produced
                      => Stored(thread[v].hash, thread[v].end.result)'
      BY <1>s, <2>1 DEF ResultsStand, ThreadsTell, Stored, At, Pc
    <3> QED
      BY <2>1, <2>2, <3>1 DEF ThreadsTell, Stored, At, Pc
  <2>3. \A pc : Goto(w, pc) => /\ thread'[w].pc = pc /\ thread'[w].out = thread[w].out
                               /\ thread'[w].end = thread[w].end
    BY <2>1, GotoGoes DEF Pc
  <2>4. \A pc, state, v : Ends(w, pc, state, v) =>
          thread'[w].pc = pc /\ thread'[w].end.state = state /\ thread'[w].end.result = v
    BY <2>1, EndsGoes DEF Pc
  <2>5. Elsewhere(w) => Tells
    BY <2>1, ElsewhereEnds DEF Pc, Produced
  <2>6. \A pc : pc # "post" /\ Ends(w, pc, "failed", NoVersion) => Tells
    BY <2>4 DEF Produced
  <2>7. \A pc : pc \notin {"post", "clean", "forget", "end"} /\ Goto(w, pc) => Tells
    BY <2>3
  <2>8. CASE Place(w) \/ Journal(w) \/ Hold(w) \/ HoldRefuses(w) \/ Register(w) \/ Check(w)
             \/ EntryReturns(w) \/ EntryFails(w) \/ EntryEscapes(w)
    <3>1. Tells
      BY <2>5, <2>6, <2>7, <2>8 DEF Place, Journal, Hold, HoldRefuses, Register, Check, EntryReturns,
         EntryFails, EntryEscapes
    <3> QED
      BY <1>2, <2>1, <2>2, <3>1 DEF ResultsStand
  <2>9. CASE Copy(w)
    <3>1. CASE OutputsThere(w)
      <4>1. thread[w] \in [pc : {"place", "run", "hold", "held", "check", "entry", "copy", "install",
                                 "post", "clean", "forget", "end", "escaped"},
                           hash : Hash, out : Version \cup {NoVersion}, end : Settled]
        BY <2>1, NowhereIsNone, AtAPlace
      <4>2. thread'[w].pc = "install"
        BY <2>9, <3>1, <4>1, <1>t DEF Copy
      <4> QED
        BY <1>2, <2>1, <2>2, <4>2 DEF ResultsStand
    <3>2. CASE ~OutputsThere(w)
      <4>1. Tells
        BY <2>6, <2>7, <2>9, <3>2 DEF Copy
      <4> QED
        BY <1>2, <2>1, <2>2, <4>1 DEF ResultsStand
    <3> QED
      BY <3>1, <3>2
  <2>10. CASE Install(w)
    <3>1. CASE h \in DOMAIN local /\ local[h] # thread[w].out
      <4>1. Tells
        BY <2>6, <2>10, <3>1 DEF Install
      <4> QED
        BY <1>2, <2>1, <2>2, <4>1 DEF ResultsStand
    <3>2. CASE h \in DOMAIN local => local[h] = thread[w].out
      <4>1. Goto(w, "post") /\ h \in DOMAIN local' /\ local'[h] = thread[w].out
        BY <2>10, <3>2 DEF Install, Put
      <4>2. Tells
        BY <2>3, <4>1
      <4> QED
        BY <1>2, <2>1, <2>2, <4>2 DEF ResultsStand
    <3> QED
      BY <3>1, <3>2
  <2>11. CASE Post(w)
    <3>1. h \in DOMAIN local' /\ local'[h] = thread[w].out
      BY <1>s, <2>11 DEF Post, ResultsStand, ThreadsTell, Stored
    <3>2. CASE Ends(w, "clean", "failed", NoVersion)
      BY <1>2, <2>1, <2>2, <2>6, <3>2 DEF ResultsStand
    <3>3. CASE Ends(w, "clean", "ran", thread[w].out)
      <4>1. Tells
        BY <2>4, <3>1, <3>3
      <4> QED
        BY <1>2, <2>1, <2>2, <4>1 DEF ResultsStand
    <3> QED
      BY <2>11, <3>2, <3>3 DEF Post
  <2>12. CASE Clean(w) \/ Forget(w)
    <3>1. /\ Pc(w) \in {"clean", "forget"} /\ thread'[w].pc # "post"
          /\ thread'[w].end = thread[w].end
      BY <2>3, <2>12 DEF Clean, Forget, At
    <3>2. thread[w].end.state \in Produced =>
            h \in DOMAIN local /\ local[h] = thread[w].end.result
      BY <3>1 DEF ResultsStand, ThreadsTell, Stored
    <3>3. Tells
      BY <1>s, <3>1, <3>2
    <3> QED
      BY <1>2, <2>1, <2>2, <3>3 DEF ResultsStand
  <2>13. CASE Checkpoint(w)
    BY <1>2, <1>4, <2>13 DEF Checkpoint, ResultsStand
  <2> QED
    BY <1>13, <2>8, <2>9, <2>10, <2>11, <2>12, <2>13 DEF Step
<1> QED
  BY <1>6, <1>7, <1>8, <1>9, <1>10, <1>11, <1>12, <1>13 DEF Next, Caller

-----------------------------------------------------------------------------
\* Every step keeps the invariant.
LEMMA ExecutorNext == ASSUME ~RunsAgain PROVE ExecutorInv /\ [Next]_vars => ExecutorInv'
BY TypesNext, OwnersNext, ClaimsNext, IntentsNext, ResultsNext DEF ExecutorInv

\* And of the invariant the rest follows.
LEMMA InvIsSound == ExecutorInv => ExecutorIsSound
<1> SUFFICES ASSUME ExecutorInv PROVE ExecutorIsSound
  OBVIOUS
<1>1. OneHashRunsOnce
  <2> SUFFICES ASSUME NEW v \in Worker, NEW w \in Worker, At(v, "entry"), At(w, "entry"),
                      thread[v].hash = thread[w].hash
               PROVE v = w
    BY DEF OneHashRunsOnce
  <2>1. v \in Alive /\ w \in Alive
    BY NowhereIsNone DEF ExecutorInv, At, Alive
  <2> QED
    BY <2>1, OneThreadAHash DEF ExecutorInv
<1>2. InterruptReturnsClaims
  BY DEF InterruptReturnsClaims, ExecutorInv, ClaimsAreKnown
<1>3. ProducedIsStored
  BY DEF ProducedIsStored, ExecutorInv, ResultsStand, ReadsStand, Stored
<1> QED
  BY <1>1, <1>2, <1>3 DEF ExecutorIsSound, EntriesAreSound, ExecutorInv, Types, IntentsStand

\* execute.py, store.py: in a process that does not call run() again where one of its
\* calls was interrupted, no two threads are in the entry of one hash, an interrupted run
\* has given back its claims, the work that an entry left is journaled, and what a unit
\* settled with is what is stored for it; whatever the graph and the other hosts.
THEOREM ExecutorStands == ASSUME ~RunsAgain PROVE Spec => []ExecutorIsSound
<1>1. Init => ExecutorInv
  BY ExecutorInit
<1>2. ExecutorInv /\ [Next]_vars => ExecutorInv'
  BY ExecutorNext
<1>3. ExecutorInv => ExecutorIsSound
  BY InvIsSound
<1> QED
  BY <1>1, <1>2, <1>3, PTL DEF Spec

\* store.py:8-10: the first result of a hash stands in both tiers, whatever runs again,
\* crashes or is posted by another host.
THEOREM FirstResultsStand == Spec => FirstResultStands
<1>1. [Next]_vars =>
        [/\ \A h \in DOMAIN local : h \in DOMAIN local' /\ local'[h] = local[h]
         /\ \A h \in DOMAIN shared : h \in DOMAIN shared' /\ shared'[h] = shared[h]]_vars
  BY StoresKeep
<1> QED
  BY <1>1, PTL DEF Spec, FirstResultStands
=============================================================================
