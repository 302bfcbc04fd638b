------------------------------- MODULE MCStores -------------------------------
(***************************************************************************)
(* Three machines that share nothing: the outcome record, the table of     *)
(* measured demands and the resource engine.  One of them runs in each     *)
(* behaviour; the others stay where they begin.                            *)
(***************************************************************************)
EXTENDS OutcomeRecord, DemandTable, ResourceEngine, TLC

VARIABLE on   \* which one runs

all == <<on, vars, tableVars, engineVars>>

-----------------------------------------------------------------------------
CONSTANTS k1, k2, ok, rejected, killed

MCKey == {k1, k2}
MCCell == {ok, rejected, killed}
MCDecided == {ok, rejected}
MCGarbage == [key |-> NoCell, cell |-> NoCell, attempt |-> 0]
\* An old line: no attempt.
Old(k, c) == [key |-> k, cell |-> c, attempt |-> 0]
MCOldFiles == {<<>>, <<Old(k1, killed), Old(k1, killed)>>, <<Old(k1, killed), Old(k2, ok)>>}

-----------------------------------------------------------------------------
(* Two runs of one folder: an item of two files, and one of a single id of *)
(* the first file, which an earlier kill is known of.                      *)
CONSTANTS r1, r2, a1, a2, b1, fa, fb, folder

MCSeeded == {r1, r2}
MCFileOf == (a1 :> fa) @@ (a2 :> fa) @@ (b1 :> fb)
MCFolderOf == (fa :> folder) @@ (fb :> folder)
MCItems == (r1 :> <<<<a1, b1>>>>) @@ (r2 :> <<<<a2>>>>)
MCCost == [mem |-> 2, seconds |-> 3]
MCRounds == (r1 :> 2) @@ (r2 :> 1)
KilledOnce ==
  [f |-> [ids |-> <<a2>>, cells |-> {}, seconds |-> NoFacts, done |-> "killed", wall |-> 2, peak |-> 1],
   state |-> "OUT_OF_MEMORY", limit |-> 2, spent |-> 2, top |-> 6]
MCEarlier == {Record(FoldItems(Folding(NewTable), <<KilledOnce>>, 2))}

-----------------------------------------------------------------------------
CONSTANTS q1, q2

Amounts(c, t, d) == ("cpu" :> c) @@ ("tokens" :> t) @@ ("disk" :> d)
MCKinds == ("cpu" :> "occupancy") @@ ("tokens" :> "consumable") @@ ("disk" :> "persistent")
MCAsks == {[demand |-> Amounts(1, 2, 0), wall |-> 1, lives |-> FALSE], [demand |-> Amounts(1, 1, 0), wall |-> 2, lives |-> FALSE],
           [demand |-> Amounts(1, 0, 1), wall |-> 2, lives |-> TRUE]}
MCSize == Amounts(2, 2, 1)
MCOutsiders == {Amounts(0, 0, 0), Amounts(1, 0, 0)}

-----------------------------------------------------------------------------
ASSUME StoresAssumption == DemandAssumption /\ EngineAssumption

\* Whoever does not run has one beginning.
StoresInit ==
  /\ on \in {"record", "table", "engine"}
  /\ Init /\ (on # "record" => lines = <<>> /\ ~tail)
  /\ TableInit
  /\ EngineInit /\ (on # "engine" => outside = Amounts(0, 0, 0))
StoresNext ==
  /\ UNCHANGED on
  /\ \/ on = "record" /\ Next /\ UNCHANGED <<tableVars, engineVars>>
     \/ on = "table" /\ TableNext /\ UNCHANGED <<vars, engineVars>>
     \/ on = "engine" /\ EngineNext /\ UNCHANGED <<vars, tableVars>>
StoresSpec == StoresInit /\ [][StoresNext]_all

=============================================================================
