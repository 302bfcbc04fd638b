------------------------------ MODULE MCBoxQueue ------------------------------
(***************************************************************************)
(* The ledger with a history variable: the moment by which a ticket that   *)
(* was refused while no earlier caller asked is promised a start           *)
(* (box/order.py, "WHY IT CANNOT STARVE").                                 *)
(***************************************************************************)
EXTENDS MCBoxLedger

VARIABLE promise  \* ticket id -> the last deadline of the claims that kept it out

queueVars == <<vars, promise>>

QueueInit == Init /\ promise = [t \in {} |-> 0]

\* The caller is refused for the first time, and no earlier one asks still.
BecomesHead(p) ==
  /\ Decides(p, "wait")
  /\ call[p].ticket \notin DOMAIN promise
  /\ \A q \in Pid : call[q].ticket # 0 => call[q].ticket >= call[p].ticket

QueueNext ==
  /\ Next
  /\ \/ \E p \in Pid :
          /\ BecomesHead(p)
          /\ promise' = With(promise, call[p].ticket,
                            Max({now} \cup {claims'[i].deadline : i \in DOMAIN claims'}))
     \/ ~(\E p \in Pid : BecomesHead(p)) /\ UNCHANGED promise

QueueSpec == QueueInit /\ [][QueueNext]_queueVars

\* A ticket for seats waits at most until the claims that first kept it out
\* end, however many later ones pass it: while its own limit lasts, the head is
\* not refused after their deadlines and the grace a reaper gives them, by
\* claims that are none of them due (order.blocks over every earlier ticket).
HeadWaitIsBounded ==
  [][\A p \in Pid :
       /\ Decides(p, "wait") /\ call[p].ticket \in DOMAIN promise
       /\ now <= call[p].givesUp
       /\ \A i \in DOMAIN claims : claims[i].deadline > now
       => now <= promise[call[p].ticket] + Grace]_queueVars
=============================================================================
