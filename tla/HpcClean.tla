------------------------------- MODULE HpcClean -------------------------------
(***************************************************************************)
(* hpc/clean.py: named directories under a root of a cluster account are   *)
(* deleted, while jobs start and end there.  Each step is one command sent *)
(* to the login host.  A path is the sequence of its components.           *)
(***************************************************************************)
EXTENDS Integers, SequencesExt, FiniteSets

CONSTANTS
  CleanRoot, \* the resolved root
  RealOf,    \* [plain name -> its resolved path]: a link may lead elsewhere
  Asks,      \* bound: [names, dry] of an invocation
  Foreign,   \* the paths that hold what another account wrote
  JobDirs    \* bound: [job -> its work directory]

VARIABLES
  exists,    \* the paths that are there
  running,   \* the jobs that run
  ended,
  clean,     \* the invocation: where it is, what it has resolved and may still delete
  gone       \* ghost: what this invocation deleted

cleanVars == <<exists, running, ended, clean, gone>>

Jobs == DOMAIN JobDirs
Real(name) == RealOf[name]
Contained(path) == path # <<>> /\ Front(path) = CleanRoot

\* Mutant: a job counts only in the target itself.
RunningUnderExactly(jobs, targets) == {t \in targets : \E j \in jobs : JobDirs[j] = t}
\* running_under(): at a target or below it.
RunningUnder(jobs, targets) == {t \in targets : \E j \in jobs : IsPrefix(t, JobDirs[j])}

NoClean == [pc |-> "idle", names |-> {}, dry |-> FALSE, targets |-> {}, saw |-> {}, left |-> 0, code |-> 0]
CleanInit ==
  /\ exists = {Real(n) : n \in DOMAIN RealOf} /\ running = {} /\ ended = {} /\ clean = NoClean /\ gone = {}

CleanAt(pc) == clean.pc = pc
JobsStay == UNCHANGED <<running, ended>>
Refuse == clean' = [clean EXCEPT !.pc = "exit", !.code = 2]

\* _validate() refuses names that are no plain component before the cluster is asked.
Invoke ==
  /\ CleanAt("idle")
  /\ \E a \in Asks : clean' = [NoClean EXCEPT !.pc = "resolve", !.names = a.names, !.dry = a.dry]
  /\ gone' = {} /\ UNCHANGED exists /\ JobsStay

\* _resolve(): name by name, then the queue.
Resolve ==
  /\ CleanAt("resolve") /\ clean.names # {}
  /\ \E n \in clean.names :
       IF n \notin DOMAIN RealOf \/ ~Contained(Real(n)) THEN Refuse
       ELSE clean' = [clean EXCEPT !.names = @ \ {n}, !.targets = @ \cup IF Real(n) \in exists THEN {Real(n)} ELSE {}]
  /\ UNCHANGED <<exists, gone>> /\ JobsStay
Squeue ==
  /\ CleanAt("resolve") /\ clean.names = {}
  /\ IF RunningUnder(running, clean.targets) # {} THEN Refuse
     ELSE clean' = [clean EXCEPT !.pc = IF clean.dry THEN "exit" ELSE "delete", !.saw = running]
  /\ UNCHANGED <<exists, gone>> /\ JobsStay

\* _delete(): a target is verified gone; what another account owns is left and told.
Delete ==
  /\ CleanAt("delete") /\ clean.targets # {}
  /\ \E t \in clean.targets :
       IF t \in Foreign
       THEN UNCHANGED <<exists, gone>> /\ clean' = [clean EXCEPT !.targets = @ \ {t}, !.left = @ + 1]
       ELSE exists' = exists \ {t} /\ gone' = gone \cup {t} /\ clean' = [clean EXCEPT !.targets = @ \ {t}]
  /\ JobsStay
CleanExit ==
  /\ CleanAt("delete") /\ clean.targets = {}
  /\ clean' = [clean EXCEPT !.pc = "exit", !.code = IF clean.left > 0 THEN 1 ELSE 0]
  /\ UNCHANGED <<exists, gone>> /\ JobsStay
Leave == CleanAt("exit") /\ clean' = NoClean /\ gone' = {} /\ UNCHANGED exists /\ JobsStay

JobStarts(j) ==
  /\ j \notin running \cup ended /\ \E t \in exists : IsPrefix(t, JobDirs[j])
  /\ running' = running \cup {j}
  /\ UNCHANGED <<exists, ended, clean, gone>>
JobEnds(j) ==
  /\ j \in running
  /\ running' = running \ {j} /\ ended' = ended \cup {j}
  /\ UNCHANGED <<exists, clean, gone>>

CleanNext == Invoke \/ Resolve \/ Squeue \/ Delete \/ CleanExit \/ Leave \/ \E j \in Jobs : JobStarts(j) \/ JobEnds(j)
CleanSpec == CleanInit /\ [][CleanNext]_cleanVars
-----------------------------------------------------------------------------
\* clean.py:12-20: nothing but a directory directly under the root goes, none under which
\* a job runs that ran when the queue was read; a refusal and a dry run delete nothing.
\* (A job that starts after the queue was read loses its directory.)
CleanSparesTheRest ==
  /\ \A t \in gone : Contained(t) /\ t \notin Foreign
  /\ \A t \in clean.targets : CleanAt("delete") => RunningUnder(running \cap clean.saw, {t}) = {}
  /\ CleanAt("exit") /\ (clean.code = 2 \/ clean.dry) => gone = {}
  /\ \A t \in gone, j \in running : IsPrefix(t, JobDirs[j]) => j \notin clean.saw
=============================================================================
