-------------------------------- MODULE Accounts --------------------------------
(***************************************************************************)
(* What a machine file and a job file may say of a cluster: hpc/grants.py  *)
(* and hpc/config.py, and run.shares_home().  A section is a function from *)
(* its keys; what is not given is the default; what is refused is          *)
(* Refusal.  Whole minutes, and a whole safety for the code's 1.5.         *)
(***************************************************************************)
EXTENDS HpcPlacement

Refusal == [refusal |-> TRUE]
IsRefusal(x) == "refusal" \in DOMAIN x

-----------------------------------------------------------------------------
(* config.py                                                               *)

DefaultCost == [cpus |-> 1, mem_gb |-> 1, gpus |-> 0, seconds |-> 60]
CostOk(cost) == cost.cpus >= 1 /\ cost.mem_gb > 0 /\ cost.gpus >= 0 /\ cost.seconds > 0

DefaultPolicy ==
  [shard_minutes_min |-> 5, shard_minutes_max |-> 60, safety |-> 2, max_array |-> 1000, stall_minutes |-> 30,
   poll_seconds |-> 120, file_budget |-> 10]
\* Mutant: a safety below one passes, and the wall is shorter than the work.
PolicyOkLoose(policy) == policy.shard_minutes_min > 0 /\ policy.max_array >= 1
PolicyOk(policy) ==
  /\ 0 < policy.shard_minutes_min /\ policy.shard_minutes_min <= policy.shard_minutes_max
  /\ policy.safety >= 1 /\ policy.max_array >= 1
  /\ policy.stall_minutes > 0 /\ policy.poll_seconds > 0 /\ policy.file_budget >= 1

DefaultJob ==
  [name |-> "lab-hpc", workdir |-> "~", setup |-> <<>>, entry |-> "", items |-> "", python |-> "python", sha |-> "",
   repo_url |-> "", rerun_safe |-> FALSE, artifact |-> "tarball"]
JobOk(job) == (job.sha = "") <=> (job.repo_url = "")

\* _section(): a key that nothing reads is refused, never left out.
Filled(raw, default) == [k \in DOMAIN default |-> IF k \in DOMAIN raw THEN raw[k] ELSE default[k]]
Section(raw, default, Ok(_)) ==
  IF DOMAIN raw \subseteq DOMAIN default /\ Ok(Filled(raw, default)) THEN Filled(raw, default) ELSE Refusal

\* load_config(): all or nothing.
Given(raw, section) == IF section \in DOMAIN raw THEN raw[section] ELSE [k \in {} |-> 0]
LoadConfig(raw) ==
  LET config == [job |-> Section(Given(raw, "job"), DefaultJob, JobOk), cost |-> Section(Given(raw, "cost"), DefaultCost, CostOk),
                 policy |-> Section(Given(raw, "policy"), DefaultPolicy, PolicyOk)]
  IN  IF DOMAIN raw \subseteq {"job", "cost", "policy"} /\ \A s \in DOMAIN config : ~IsRefusal(config[s]) THEN config ELSE Refusal

\* Cost.demands() and the policy, as plan.py reads them.
Demands(cost) == [need |-> [d \in Dims |-> IF d = "cpu" THEN cost.cpus ELSE cost.mem_gb], seconds |-> cost.seconds]
PlannedWith(policy) ==
  [shardMin |-> policy.shard_minutes_min, shardMax |-> policy.shard_minutes_max, safety |-> policy.safety, maxArray |-> policy.max_array]

-----------------------------------------------------------------------------
(* grants.py                                                               *)

RetiredKeys == {"workstation", "session"}
RetiredGrantKeys == {"cpus"}
DefaultGrant == [priority |-> 0, partitions |-> <<>>, qos |-> [n \in {} |-> ""], setup |-> <<>>, costed |-> FALSE]
GrantKeys == DOMAIN DefaultGrant \cup {"user", "hosts", "slurm_account"}

\* _grant(), Grant: its keys are known and none is retired; it names who, where and which.
GrantOk(raw) ==
  /\ DOMAIN raw \cap RetiredGrantKeys = {} /\ DOMAIN raw \subseteq GrantKeys
  /\ {"user", "hosts", "slurm_account"} \subseteq DOMAIN raw
  /\ raw.user # "" /\ raw.slurm_account # "" /\ raw.hosts # <<>> /\ \A k \in DOMAIN raw.hosts : raw.hosts[k] # ""
GrantOf(raw) == [k \in GrantKeys |-> IF k \in DOMAIN raw THEN raw[k] ELSE DefaultGrant[k]]

\* Grant.account, Grant.targets, Grant.same_cluster(), shares_home()
Account(grant) == <<grant.user, grant.slurm_account>>
Targets(grant) == [k \in DOMAIN grant.hosts |-> <<grant.user, grant.hosts[k]>>]
SameCluster(grant, other) == Range(grant.hosts) \cap Range(other.hosts) # {}
SharesHome(grant, builder) == SameCluster(grant, builder) /\ grant.user = builder.user

\* _paging(), Paging: every key, and every bound positive; undeclared there is none.
PagingKeys == {"page_cpus", "page_mem_gb", "large_pages", "movable_minutes"}
PagingOk(raw) == DOMAIN raw = PagingKeys /\ \A k \in PagingKeys : raw[k] > 0
PagingOf(raw) ==
  IF "paging" \notin DOMAIN raw THEN NoPaging
  ELSE [page |-> [d \in Dims |-> IF d = "cpu" THEN raw.paging.page_cpus ELSE raw.paging.page_mem_gb],
        largePages |-> raw.paging.large_pages, movable |-> raw.paging.movable_minutes]

\* _session(): $LC_HPC_SESSION without its outer blanks, in parts that "," ";" and
\* blanks end.
Separators == {" ", ",", ";"}
Stripped(name) ==
  LET ink == {k \in DOMAIN name : name[k] # " "}
  IN  IF ink = {} THEN <<>> ELSE SubSeq(name, Min(ink), Max(ink))
SessionOk(name) == Range(Stripped(name)) \cap Separators = {}
\* Machine.comment
Tag == "lc:session="
Comment(name) == IF name = <<>> THEN <<>> ELSE <<Tag>> \o name

\* stream_of(): what follows the first tag of the comment, up to a separator; without one a
\* job of the forge's own is the forge's, and any other is nobody's.
Forge == <<"forge">>
IsRunJob(job) == job \in {"run-<sha12>", "run-<sha12>-win"}
NameAfter(comment, k) == SubSeq(comment, k + 1, Min({j \in k + 1 .. Len(comment) : comment[j] \in Separators} \cup {Len(comment) + 1}) - 1)
StreamOf(comment, job) ==
  LET tags == {k \in DOMAIN comment : comment[k] = Tag /\ (k = 1 \/ comment[k - 1] \in Separators) /\ NameAfter(comment, k) # <<>>}
  IN  IF tags # {} THEN NameAfter(comment, Min(tags)) ELSE IF IsRunJob(job) THEN Forge ELSE <<>>

TableOk(raw) == DOMAIN raw \cap RetiredKeys = {} /\ DOMAIN raw \subseteq {"grant", "paging"} /\ "grant" \in DOMAIN raw /\ raw.grant # <<>>
OncePerAccount(grants) == \A j, k \in DOMAIN grants : Account(grants[j]) = Account(grants[k]) => j = k

\* load_grants(): the whole table or none of it.
Machine(raw, name) ==
  [grants |-> [k \in DOMAIN raw.grant |-> GrantOf(raw.grant[k])], session |-> Stripped(name), paging |-> PagingOf(raw)]
\* Mutant: an account that is granted twice is two accounts.
LoadGrantsTwice(raw, name) ==
  IF TableOk(raw) /\ (\A k \in DOMAIN raw.grant : GrantOk(raw.grant[k])) THEN Machine(raw, name) ELSE Refusal
LoadGrants(raw, name) ==
  IF /\ TableOk(raw) /\ \A k \in DOMAIN raw.grant : GrantOk(raw.grant[k])
     /\ OncePerAccount([k \in DOMAIN raw.grant |-> GrantOf(raw.grant[k])])
     /\ SessionOk(name) /\ ("paging" \in DOMAIN raw => PagingOk(raw.paging))
  THEN Machine(raw, name) ELSE Refusal

-----------------------------------------------------------------------------
\* config.py:110-135: with every job file that loads the plan keeps what it reads of the
\* cluster, and its wall holds what the items were measured to take, unless no wall that
\* is granted is so long.
WhatLoadsIsPlannable(raw, seconds, snap, grant) ==
  \E config \in {LoadConfig(raw)} :
    \/ IsRefusal(config)
    \/ \E policy \in {PlannedWith(config.policy)}, cost \in {Demands(config.cost)} :
       \E plan \in {PlanOn(grant, snap, seconds, cost, policy)} :
         \/ Refused(plan)
         \/ /\ PlanKeepsItsLimits(seconds, cost, snap, grant, policy, plan)
            /\ plan.minutes < plan.top => Slowest(seconds, plan.shards) <= plan.minutes * 60

\* grants.py:3-5, 9-15 and slurm.py:79-84: over what loads, what a batch may run of one
\* account is what that account has left, though it is one task at the least; the session of
\* a job is read back from its comment, whatever another tool wrote around it, and a run
\* without one is the forge's; and grants share a home when one login of both is the same.
PoolIsCountedOnce(raw, name, snapOf, ask) ==
  \E machine \in {LoadGrants(raw, name)} : IsRefusal(machine) \/
    /\ \A job \in {"run-<sha12>", "mesh"}, before \in {<<>>, <<"x", ";">>, <<"x">> \o <<Tag>> \o <<";">>}, after \in {<<>>, <<",", Tag, "z">>} :
         StreamOf(before \o Comment(machine.session) \o after, job) =
           CASE machine.session # <<>> -> machine.session
             [] machine.session = <<>> /\ after # <<>> -> <<"z">>
             [] OTHER -> IF job = "mesh" THEN <<>> ELSE Forge
    /\ \A g, h \in Range(machine.grants) : SharesHome(g, h) <=> Range(Targets(g)) \cap Range(Targets(h)) # {}
    /\ \E answer \in {Span([k \in DOMAIN machine.grants |-> [grant |-> machine.grants[k], snap |-> snapOf[Account(machine.grants[k])]]],
                           [ask EXCEPT !.paging = machine.paging])} : Refused(answer) \/
         LET on(a)    == {k \in DOMAIN answer.placed : Account(machine.grants[answer.placed[k].on]) = a}
             tasks(a) == Sum(on(a), LAMBDA k : answer.placed[k].plan.throttle)
         IN  \A a \in {Account(g) : g \in Range(machine.grants)} :
               tasks(a) <= 1 \/ \A d \in Dims : tasks(a) * ask.cost.need[d] <= Left(snapOf[a].quota, d)
=============================================================================
