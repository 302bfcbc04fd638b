------------------------------- MODULE MCCalls -------------------------------
(***************************************************************************)
(* The calls of MCPure, and five machines that share nothing: the tools'   *)
(* presence on a host, the trees and builds of an account, its clean-up,   *)
(* a process tree, and a state file.  One of the six runs in each          *)
(* behaviour.                                                              *)
(***************************************************************************)
EXTENDS MCPure, ToolPresence, HpcBuilds, HpcClean, ProcTable, RecordFiles

VARIABLE on    \* which one runs
all == <<on, call, presenceVars, buildVars, cleanVars, tableVars, fileVars>>

-----------------------------------------------------------------------------
(* A server's tick and one of its station threads; a tool that is found    *)
(* in one place or in two, working or not.                                 *)
CONSTANTS tick, s1, forge, torn1

Good(v) == [prints |-> v, file |-> v, works |-> TRUE]
Bad(v) == [Good(v) EXCEPT !.works = FALSE]
Absent == [prints |-> 0, file |-> 0, works |-> FALSE]
TheHosts ==
  { [femm |-> [x \in {"install dir", "PATH"} |-> IF x = "PATH" THEN Bad(1) ELSE Good(2)]],
    [femm |-> [x \in {"FEMM_DIR", "PATH"} |-> IF x = "PATH" THEN Good(1) ELSE Absent]] }
Floors(n) == [femm |-> [floor |-> n, reason |-> n > 0, below |-> 0, incompatible |-> FALSE]]
TheManifests == {Floors(0), Floors(2)}
OneProcess == (tick :> forge) @@ (s1 :> forge)

-----------------------------------------------------------------------------
CONSTANTS w1, w2

\* Three commits share an environment and a native part: the second changes a file,
\* the third the conftest. The fourth has an install of its own, the last shares nothing.
Commit(install, native, shared, b) ==
  [shares |-> TRUE, deps |-> "lock", install |-> install, native |-> native, shared |-> shared, files |-> ("x" :> "x1") @@ ("y" :> b)]
TheCommits ==
  ("c1" :> Commit("sync", "rust", "conf", "y1")) @@ ("c2" :> Commit("sync", "rust", "conf", "y2")) @@
  ("c3" :> Commit("sync", "rust", "conf2", "y1")) @@ ("c4" :> Commit("sync extra", "none", "conf", "y2")) @@
  ("c5" :> [Commit("sync", "rust", "conf", "y1") EXCEPT !.shares = FALSE])
TheTests ==
  ("x1" :> ("conf" :> {"a"} @@ "conf2" :> {"a", "b"})) @@ ("y1" :> ("conf" :> {"a", "g"} @@ "conf2" :> {"a", "g"})) @@
  ("y2" :> ("conf" :> {"g"} @@ "conf2" :> {"g"}))
Test(sha, packs) == [sha |-> sha, python |-> "3", kind |-> "run", packs |-> packs]
Artifact(sha) == [sha |-> sha, python |-> "3", kind |-> "artifact", packs |-> TRUE]
\* One submit of a commit that nobody has.
TheTodo ==
  (w1 :> <<Test("c1", FALSE), Test("c4", FALSE)>>) @@
  (w2 :> <<Test("c3", FALSE), Test("c2", FALSE), Test("c3", TRUE), Artifact("c5")>>)

-----------------------------------------------------------------------------
CONSTANTS j1, j2

\* Two runs, a link out of the root and a name that leads to the root itself.
TheNames == ("run1" :> <<"r", "run1">>) @@ ("run2" :> <<"r", "run2">>) @@ ("out" :> <<"o", "x">>) @@ ("self" :> <<"r">>)
TheAsks == [names : {{"run1"}, {"run1", "run2"}, {"run2", "lost"}, {"out", "run1"}, {"self"}}, dry : BOOLEAN]
TheRoot == <<"r">>
TheForeign == {<<"r", "run2">>}
TheJobDirs == (j1 :> <<"r", "run1", "shard">>) @@ (j2 :> <<"r", "run2">>)

-----------------------------------------------------------------------------
CONSTANTS f1, f2, f3, r1, r2

\* A learned table whose peer reads it too, or a record that is read once; each door writes once.
Readings == {(r1 :> "learned") @@ (r2 :> how) : how \in {"read_table", "read_ended"}}
Doors == (f1 :> "durable_write") @@ (f2 :> "publish") @@ (f3 :> "unpublish")

-----------------------------------------------------------------------------
ASSUME CallsAssumption == PresenceAssumption /\ BuildsAssumption /\ TableAssumption /\ FilesAssumption

\* Whoever does not run has one beginning.
CallsInit ==
  /\ on \in {"call", "presence", "builds", "clean", "tree", "files"}
  /\ Init /\ (on # "call" => call = Awaits("plan"))
  /\ PresenceInit /\ (on # "presence" => host = (CHOOSE h \in TheHosts : TRUE) /\ declared = Floors(0))
  /\ BuildsInit
  /\ CleanInit
  /\ TableInit /\ (on # "tree" => system = [os |-> "linux", call |-> "kill"])
  /\ FilesInit /\ (on # "files" => ~windows /\ reader[r2].how = "read_table")
CallsNext ==
  /\ UNCHANGED on
  /\ \/ on = "call" /\ Next /\ UNCHANGED <<presenceVars, buildVars, cleanVars, tableVars, fileVars>>
     \/ on = "presence" /\ PresenceNext /\ UNCHANGED <<call, buildVars, cleanVars, tableVars, fileVars>>
     \/ on = "builds" /\ BuildsNext /\ UNCHANGED <<call, presenceVars, cleanVars, tableVars, fileVars>>
     \/ on = "clean" /\ CleanNext /\ UNCHANGED <<call, presenceVars, buildVars, tableVars, fileVars>>
     \/ on = "tree" /\ TableNext /\ UNCHANGED <<call, presenceVars, buildVars, cleanVars, fileVars>>
     \/ on = "files" /\ FilesNext /\ UNCHANGED <<call, presenceVars, buildVars, cleanVars, tableVars>>
CallsSpec == CallsInit /\ [][CallsNext]_all
RenewSpec == CallsInit /\ on = "presence" /\ [][CallsNext]_all

-----------------------------------------------------------------------------
\* model.py, needsets.py, providers.py: the order is just, a declaration holds of its phases, and
\* what a box lends and is asked is what it has and what runs proved; a hash names what is
\* computed, and what a file declares can be planned (OrderIsJust, DeclarationsHold,
\* SizesAreLent, NamesAreTrue).
DeclarationsAreHonoured == OrderIsJust /\ DeclarationsHold /\ SizesAreLent /\ NamesAreTrue

\* What is read of a run, and what a declaration asks, is what was reported and declared.
AnswersAreTrue == JudgementsAgree /\ DeclarationsAreHonoured
=============================================================================
