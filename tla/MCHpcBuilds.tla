------------------------------ MODULE MCHpcBuilds ------------------------------
(* A commit that renames a test file of the one before it.                 *)
EXTENDS HpcBuilds, TLC
CONSTANTS w1
Commit(files) ==
  [shares |-> TRUE, deps |-> "lock", install |-> "sync", native |-> "none", shared |-> "conf", files |-> files]
TheCommits == ("c1" :> Commit("x" :> "x1" @@ "y" :> "y1")) @@ ("c2" :> Commit("x" :> "x1" @@ "z" :> "y1"))
TheTests == ("x1" :> ("conf" :> {"a"})) @@ ("y1" :> ("conf" :> {"g"}))
Test(sha) == [sha |-> sha, python |-> "3", kind |-> "run", packs |-> FALSE]
TheTodo == w1 :> <<Test("c1"), Test("c2")>>
=============================================================================
