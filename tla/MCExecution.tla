------------------------------ MODULE MCExecution ------------------------------
(***************************************************************************)
(* Three machines that share nothing: the executor of a graph of units on  *)
(* this host, with twins of one hash and a dependant; a batch of jobs on   *)
(* the clusters; and the sessions that place tasks on two accounts.  One   *)
(* of them runs in each behaviour; the others stay where they begin, where *)
(* their properties hold.                                                  *)
(***************************************************************************)
EXTENDS LocalExecutor, TLC

VARIABLES
  on,                                                                   \* which one runs
  record, call, manifest, results, jobs, unlisted, troubles, unseen,    \* HpcJobs
  pending, placed, decided                                              \* HpcPool
batch == <<record, call, manifest, results, jobs, unlisted, troubles, unseen>>
pool == <<pending, placed, decided>>
all == <<on, vars, batch, pool>>

CONSTANTS u1, u2, u3, make, read, v1, v2, g1, g2

MCUnit == {u1, u2, u3}
MCRecipe == (u1 :> make) @@ (u2 :> make) @@ (u3 :> read)
MCUpstream == (u1 :> {}) @@ (u2 :> {}) @@ (u3 :> {u1})

TwoGrants == <<g1, g2>>
Jbs == INSTANCE HpcJobs WITH Grants <- TwoGrants, BatchSize <- 2, MaxTroubles <- 2, MaxJobs <- 6

-----------------------------------------------------------------------------
\* Two accounts of two CPUs; a large task fills the memory of one.
CONSTANTS Untagged, Borrow, big, tiny, other
Pol == INSTANCE HpcPool WITH
  running <- placed, Accounts <- 2, Large <- {big}, Small <- {tiny, other}, Cpus <- 2, Mem <- 2, LargeMem <- 2, MaxStale <- 2

ASSUME BatchAssumption == Jbs!JobsAssumption /\ Pol!PoolAssumption

AllInit == on \in {"executor", "jobs", "pool"} /\ Init /\ Jbs!Init /\ Pol!Init
AllNext ==
  /\ UNCHANGED on
  /\ \/ on = "executor" /\ Next /\ UNCHANGED <<batch, pool>>
     \/ on = "jobs" /\ Jbs!Next /\ UNCHANGED <<vars, pool>>
     \/ on = "pool" /\ Pol!Next /\ UNCHANGED <<vars, batch>>

\* The fairness of all, of each when it runs.
AllSpec ==
  /\ AllInit /\ [][AllNext]_all
  /\ WF_vars(on = "executor" /\ Caller) /\ \A w \in Worker : WF_vars(on = "executor" /\ Step(w))
  /\ WF_batch(on = "jobs" /\ (Jbs!SubmitJob \/ Jbs!Retry \/ Jbs!Working)) /\ WF_batch(on = "jobs" /\ Jbs!Runs)
  /\ \A n \in Pol!Account : WF_pool(on = "pool" /\ Pol!Starts(n, big)) /\ WF_pool(on = "pool" /\ \E s \in Pol!Session : Pol!Ends(n, s))

-----------------------------------------------------------------------------
\* jobs.py, gather.py: what is on the record and what is read of it is the batch, and no
\* shard is run by two tasks, nor by one that a caller believes is over.
ShardsAreSound == on = "jobs" => Jbs!ResultsAreWhole /\ Jbs!ShardsRunOnce
\* worker.py: a shard that was returned stays so, with the results it had.
ReturnedStays == Jbs!ReturnedStays
\* jobs.py: with a caller that retries, every item of the batch is reported in the end.
BatchReturns == Jbs!BatchReturns

\* plan.py, region.py: what is placed on stale readings stays within what the pool grants.
PoolIsSound == on = "pool" => Pol!PoolIsSound
\* region.py: the account that is set apart for large tasks drains until they start.
LargeStarts == \A n \in Pol!Account : on = "pool" /\ Pol!Waits(n) ~> placed[n][big] > 0
=============================================================================
