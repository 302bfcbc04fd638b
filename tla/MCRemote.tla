------------------------------- MODULE MCRemote -------------------------------
(***************************************************************************)
(* Three machines that share nothing: a remote run's rounds, the           *)
(* supervisor of an item and its pytest, and a run inside its kernel       *)
(* limit.  One of them runs in each behaviour; the others stay where they  *)
(* begin, where their properties hold.                                     *)
(***************************************************************************)
EXTENDS MCHpcRun, BoxRun, TLC

VARIABLES
  on,                                     \* which one runs
  lines, sup, child, ran, mine, bounds    \* HpcItem

itemVars == <<lines, sup, child, ran, mine, bounds>>
all == <<on, vars, itemVars, boxVars>>

-----------------------------------------------------------------------------
CONSTANTS x, y, foreign, none

\* Two ids; the second declares a timeout of its own.
Itm == INSTANCE HpcItem WITH
  stream <- lines, ItemIds <- <<x, y>>, NoId <- none, Foreign <- foreign, Walls <- (x :> 1) @@ (y :> 1),
  Declared <- (x :> 0) @@ (y :> 2), MaxAttempts <- 2, MaxMixed <- 1

-----------------------------------------------------------------------------
CONSTANTS child1, kid1

Linux == [system |-> "linux", systemd_run |-> TRUE, controllers |-> {"memory", "cpu"}, starts |-> TRUE, job |-> FALSE, incgroup |-> FALSE]
BoxHosts ==
  { Linux, [Linux EXCEPT !.system = "win32"], [Linux EXCEPT !.controllers = {"memory"}],
    [Linux EXCEPT !.controllers = {"memory"}, !.job = TRUE, !.incgroup = TRUE] }
-----------------------------------------------------------------------------
ASSUME RemoteAssumption == Itm!ItemAssumption /\ BoxRunAssumption

\* Whoever does not run has one beginning.
RemoteInit ==
  /\ on \in {"run", "item", "box"}
  /\ Init /\ (on # "run" => asked = OnePair)
  /\ Itm!Init
  /\ BoxInit /\ (on # "box" => how = "job")
RemoteNext ==
  /\ UNCHANGED on
  /\ \/ on = "run" /\ Next /\ UNCHANGED <<itemVars, boxVars>>
     \/ on = "item" /\ Itm!Next /\ UNCHANGED <<vars, boxVars>>
     \/ on = "box" /\ BoxNext /\ UNCHANGED <<vars, itemVars>>

\* The fairness of each machine.  One machine runs in a behaviour, so that a disjunction of
\* steps of different machines is as fair as each of them.
RemoteSpec ==
  /\ RemoteInit /\ [][RemoteNext]_all
  /\ WF_all(\/ on = "run" /\ \E t \in Caller : Step(t) /\ UNCHANGED <<on, itemVars, boxVars>>
            \/ on = "item" /\ Itm!Supervise /\ UNCHANGED <<on, vars, boxVars>>
            \/ on = "box" /\ Launching /\ UNCHANGED <<on, vars, itemVars>>)
  /\ WF_all(\/ on = "run" /\ (\E j \in DOMAIN jobs : \E n \in DOMAIN jobs[j].tasks : Runs(j, n))
               /\ UNCHANGED <<on, itemVars, boxVars>>
            \/ on = "item" /\ Itm!Tick /\ UNCHANGED <<on, vars, boxVars>>
            \/ on = "box" /\ Tick /\ UNCHANGED <<on, vars, itemVars>>)
  /\ WF_all(on = "item" /\ child.pc = "collecting" /\ (Itm!Collected \/ Itm!Exit) /\ UNCHANGED <<on, vars, boxVars>>)

-----------------------------------------------------------------------------
\* pytest_item.py: what is read of an item is what its last attempt did.
StreamIsTrue == Itm!StreamIsTrue
\* pytest_item.py: a kill cuts what hangs, and nothing that was told runs again for it.
CutsAreJust == Itm!CutsAreJust

\* The contained runs alone.
ContainedSpec == RemoteInit /\ on = "box" /\ [][RemoteNext]_all

\* run.py:41-48; pytest_item.py; _linux.py, _win.py: rounds end, those after an OOM too, and a
\* run in its record; an item closes whatever test hangs; a contained run ends with its launcher,
\* however long its child would take.  (RunEnds, ItemCloses and LaunchEnds, of the one that runs.)
WhatBeginsEnds ==
  \/ on = "run" /\ disk # NoState
  \/ on = "item" /\ sup.pc = "launch"
  \/ on = "box" /\ launcher.pc = "poll"
  ~>
  \/ on = "run" /\ (disk.record \/ dropped)
  \/ on = "item" /\ sup.pc \in {"closed", "idle"}
  \/ on = "box" /\ launcher.pc \in {"idle", "dead"}
=============================================================================
