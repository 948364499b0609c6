------------------------------- MODULE Relayer -------------------------------
(***************************************************************************)
(* The relayer service (apps/worker/src/executor.js): several worker       *)
(* processes share one signing key and one Postgres journal and submit     *)
(* execute/recover transactions to the chain.                              *)
(*                                                                         *)
(* A cycle takes a session-level advisory lock, reconciles the journal     *)
(* with the chain, discovers jobs, and signs at most one transaction: the  *)
(* signed bytes are committed to the journal before they are broadcast.    *)
(* Between any two database or RPC round trips a worker may crash, or its  *)
(* database session may end while the process goes on; the chain reorders  *)
(* what is not yet confirmed.  A job is an (enrollment, market, action)    *)
(* and has at most one transaction, named by its nonce.                    *)
(***************************************************************************)
EXTENDS Integers, Sequences, FiniteSets, Functions

CONSTANTS
  Workers, Jobs,
  NoJob,          \* no job in hand
  Outside,        \* a transaction of the signer that no worker made
  Limit,          \* EXECUTOR_RUN_BUDGET_WEI, configured per process
  Costs,          \* gas * fee of a transaction; a cost stands for one gas limit and one fee
  WithinCaps,     \* per process: the costs within EXECUTOR_MAX_GAS and EXECUTOR_MAX_FEE_PER_GAS
  MaxFaults,      \* bound: crashes, lost sessions and failed RPC calls together
  MaxChainEvents, \* bound: reorganisations and mempool drops together
  MaxOutside      \* bound: transactions made with the key outside the service

ASSUME JobAssumption == NoJob \notin Jobs /\ Outside \notin Jobs
ASSUME JobsAssumption == IsFiniteSet(Jobs)   \* an enrollment and a market id are fixed-length strings of bytes
ASSUME BudgetAssumption == Limit \in [Workers -> Nat \ {0}] /\ Costs \subseteq Nat \ {0}
ASSUME CapsAssumption == WithinCaps \in [Workers -> SUBSET Costs]
ASSUME BoundAssumption == MaxFaults \in Nat /\ MaxChainEvents \in Nat /\ MaxOutside \in Nat

Active == {"SIGNED", "BROADCAST", "UNKNOWN"}
Terminal == {"CONFIRMED", "REVERTED"}
JobStates == {"NONE", "QUEUED"} \cup Active \cup Terminal

VARIABLES
  \* the database
  job,        \* proofcast_executor_jobs: state, nonce and reserved cost of each job
  budget,     \* proofcast_executor_runs.budget, 0 while the run has no row
  reserved,   \* proofcast_executor_runs.reserved
  \* the worker processes
  pc,         \* where the worker's cycle is
  session,    \* its database session is alive and holds the advisory lock
  current,    \* the job it is signing or sending
  draft,      \* nonce and cost of the transaction it is about to commit
  todo,       \* the jobs it discovered in this cycle
  rpc,        \* outcome of its last broadcast
  \* the chain
  mined,      \* the signer's transactions in nonce order: job and success
  final,      \* how many of them have the required confirmations
  pool,       \* jobs whose transaction is in the mempool
  others,     \* jobs somebody else has carried out on-chain
  \* history and bounds
  sent,       \* jobs whose bytes have left a worker, with their nonce
  faults, chainEvents

db == <<job, budget, reserved>>
worker == <<pc, session, current, draft, todo, rpc>>
chain == <<mined, final, pool, others>>
vars == <<db, worker, chain, sent, faults, chainEvents>>

NoRow == [state |-> "NONE", nonce |-> -1, cost |-> 0]
NoDraft == [nonce |-> -1, cost |-> 0]

-----------------------------------------------------------------------------
(* What a worker reads.                                                    *)

LatestNonce == Len(mined)
\* getTransactionCount(signer, 'pending')
PendingNonce ==
  LatestNonce + Cardinality({j \in pool : job[j].nonce >= LatestNonce})

MinedAt(j) == {i \in DOMAIN mined : mined[i].job = j}
Done(j, height) == j \in others \/ \E i \in MinedAt(j) : i <= height /\ mined[i].ok

\* Faulty variant of Confirmed: a receipt is enough.
MinedIsConfirmed(j) == MinedAt(j) # {}

Confirmed(j) == \E i \in MinedAt(j) : i <= final
Succeeded(j) == \E i \in MinedAt(j) : mined[i].ok

ActiveJobs == {j \in Jobs : job[j].state \in Active}
Journaled == {j \in Jobs : job[j].state \in Active \cup Terminal}

\* max(nonce) of the journal is below the chain's next nonce, and nothing is pending.
NonceIsFree ==
  /\ PendingNonce = LatestNonce
  /\ \A j \in Journaled : job[j].nonce < LatestNonce

\* Faulty variant of LockFree: workers do not exclude each other.
NoLock == TRUE

\* pg_try_advisory_lock succeeds.
LockFree == \A w \in Workers : ~session[w]

\* The run's row keeps the first budget; a later configuration can only lower it.
Least(a, b) == IF a <= b THEN a ELSE b
RunBudget(w) == IF budget = 0 THEN Limit[w] ELSE budget
ReservedAfter(cost) == reserved + cost

\* Faulty variant of ReservationAllowed: only this process's configuration counts.
ReservationWithinLimit(w, cost) == ReservedAfter(cost) <= Limit[w]

ReservationAllowed(w, cost) == ReservedAfter(cost) <= Least(RunBudget(w), Limit[w])

-----------------------------------------------------------------------------
Init ==
  /\ job = [j \in Jobs |-> NoRow]
  /\ budget = 0 /\ reserved = 0
  /\ pc = [w \in Workers |-> "idle"]
  /\ session = [w \in Workers |-> FALSE]
  /\ current = [w \in Workers |-> NoJob]
  /\ draft = [w \in Workers |-> NoDraft]
  /\ todo = [w \in Workers |-> {}]
  /\ rpc = [w \in Workers |-> "none"]
  /\ mined = <<>> /\ final = 0 /\ pool = {} /\ others = {}
  /\ sent = {} /\ faults = 0 /\ chainEvents = 0

\* The worker's cycle ends; in memory nothing survives, the lock is released.
EndCycle(w) ==
  /\ pc' = [pc EXCEPT ![w] = "idle"]
  /\ session' = [session EXCEPT ![w] = FALSE]
  /\ current' = [current EXCEPT ![w] = NoJob]
  /\ draft' = [draft EXCEPT ![w] = NoDraft]
  /\ todo' = [todo EXCEPT ![w] = {}]
  /\ rpc' = [rpc EXCEPT ![w] = "none"]

\* A database round trip of worker w at a point of its cycle.
At(w, point) == pc[w] = point /\ session[w]
Goto(w, point) == pc' = [pc EXCEPT ![w] = point]

-----------------------------------------------------------------------------
(* cycle: lock, reconcile, discover                                        *)

Lock(w) ==
  /\ pc[w] = "idle"
  /\ LockFree
  /\ Goto(w, "reconcile")
  /\ session' = [session EXCEPT ![w] = TRUE]
  /\ UNCHANGED <<db, current, draft, todo, rpc, chain, sent, faults, chainEvents>>

\* Rows are visited in nonce order.
FirstActive(j) == j \in ActiveJobs /\ \A k \in ActiveJobs : job[j].nonce <= job[k].nonce

\* A canonical receipt with enough confirmations: the row becomes terminal.
Settle(w, j) ==
  /\ At(w, "reconcile")
  /\ FirstActive(j)
  /\ Confirmed(j)
  /\ job' = [job EXCEPT ![j].state = IF Succeeded(j) THEN "CONFIRMED" ELSE "REVERTED"]
  /\ UNCHANGED <<budget, reserved, worker, chain, sent, faults, chainEvents>>

\* Faulty variant of Lost: only a transaction that was never tried is sent again.
NeverTried(w, j) ==
  /\ job[j].state = "SIGNED"
  /\ MinedAt(j) = {} /\ j \notin pool
  /\ LatestNonce <= job[j].nonce /\ PendingNonce <= job[j].nonce
  /\ job[j].cost \in WithinCaps[w]

\* No receipt, nothing of it in the mempool, its nonce unused, and gas and fee within
\* what this process is configured with: send the same bytes.
Lost(w, j) ==
  /\ MinedAt(j) = {}
  /\ j \notin pool
  /\ LatestNonce <= job[j].nonce /\ PendingNonce <= job[j].nonce
  /\ job[j].cost \in WithinCaps[w]

Resend(w, j) ==
  /\ At(w, "reconcile")
  /\ FirstActive(j)
  /\ Lost(w, j)
  /\ Goto(w, "sending")
  /\ current' = [current EXCEPT ![w] = j]
  /\ UNCHANGED <<db, session, draft, todo, rpc, chain, sent, faults, chainEvents>>

\* A receipt without confirmations, a transaction still pending, a nonce that somebody
\* else used, or a fee above this process's limit: wait, whatever else there is to do.
Wait(w, j) ==
  /\ At(w, "reconcile")
  /\ FirstActive(j)
  /\ ~Confirmed(j) /\ ~Lost(w, j)
  /\ EndCycle(w)
  /\ UNCHANGED <<db, chain, sent, faults, chainEvents>>

\* Faulty variant of JournalSettled: a transaction that was broadcast counts as settled.
OnlySignedBlocks == \A j \in Jobs : job[j].state # "SIGNED"

JournalSettled == ActiveJobs = {}

\* discover: the jobs that are open at the confirmed block get a row.
Discover(w) ==
  /\ At(w, "reconcile")
  /\ JournalSettled
  /\ \E found \in SUBSET {j \in Jobs : ~Done(j, final)} :
       /\ job' = [j \in Jobs |-> IF j \in found /\ job[j].state = "NONE"
                                 THEN [job[j] EXCEPT !.state = "QUEUED"] ELSE job[j]]
       /\ todo' = [todo EXCEPT ![w] = found]
  /\ Goto(w, "signing")
  /\ UNCHANGED <<budget, reserved, session, current, draft, rpc, chain, sent, faults, chainEvents>>

-----------------------------------------------------------------------------
(* signJob and broadcast                                                   *)

\* FOR UPDATE SKIP LOCKED: no other open transaction holds the row.
RowUnlocked(j) == \A v \in Workers : ~(At(v, "prepared") /\ current[v] = j)

\* Everything signJob reads before it signs.
Prepare(w, j, cost) ==
  /\ At(w, "signing")
  /\ j \in todo[w]
  /\ job[j].state = "QUEUED" /\ RowUnlocked(j)
  /\ ~Done(j, LatestNonce)
  /\ cost \in WithinCaps[w]
  /\ ReservationAllowed(w, cost)
  /\ NonceIsFree
  /\ Goto(w, "prepared")
  /\ current' = [current EXCEPT ![w] = j]
  /\ draft' = [draft EXCEPT ![w] = [nonce |-> LatestNonce, cost |-> cost]]
  /\ UNCHANGED <<db, session, todo, rpc, chain, sent, faults, chainEvents>>

\* Any of signJob's early returns: the transaction is rolled back, the next job is tried.
Skip(w, j) ==
  /\ At(w, "signing")
  /\ j \in todo[w]
  /\ todo' = [todo EXCEPT ![w] = @ \ {j}]
  /\ UNCHANGED <<db, pc, session, current, draft, rpc, chain, sent, faults, chainEvents>>

NothingToDo(w) ==
  /\ At(w, "signing")
  /\ todo[w] = {}
  /\ EndCycle(w)
  /\ UNCHANGED <<db, chain, sent, faults, chainEvents>>

\* COMMIT: the signed bytes and the reservation become durable together.
Commit(w) ==
  /\ At(w, "prepared")
  /\ \A k \in Journaled : job[k].nonce # draft[w].nonce   \* UNIQUE(chain_id, signer, nonce)
  /\ job' = [job EXCEPT ![current[w]] =
       [state |-> "SIGNED", nonce |-> draft[w].nonce, cost |-> draft[w].cost]]
  /\ budget' = RunBudget(w)
  /\ reserved' = ReservedAfter(draft[w].cost)
  /\ Goto(w, "committed")
  /\ UNCHANGED <<session, current, draft, todo, rpc, chain, sent, faults, chainEvents>>

\* The round trip after the COMMIT, before the bytes leave.
Ping(w) ==
  /\ At(w, "committed")
  /\ Goto(w, "sending")
  /\ UNCHANGED <<db, session, current, draft, todo, rpc, chain, sent, faults, chainEvents>>

\* broadcastTransaction.  The process no longer asks the database: the session, and
\* with it the lock, may be gone.  A node refuses a nonce that is used.
Deliverable(j) == LatestNonce <= job[j].nonce /\ MinedAt(j) = {}

\* Faulty variant of ReadyToSend: the bytes may leave before the COMMIT.
ReadyBeforeCommit(w) == pc[w] \in {"prepared", "sending"}

ReadyToSend(w) == pc[w] = "sending"

SendOk(w) ==
  /\ ReadyToSend(w)
  /\ Deliverable(current[w])
  /\ pool' = pool \cup {current[w]}
  /\ sent' = sent \cup {<<current[w], job[current[w]].nonce>>}
  /\ rpc' = [rpc EXCEPT ![w] = "ok"]
  /\ Goto(w, "sent")
  /\ UNCHANGED <<db, session, current, draft, todo, mined, final, others, faults, chainEvents>>

\* The node refuses the bytes.
SendRefused(w) ==
  /\ ReadyToSend(w)
  /\ ~Deliverable(current[w])
  /\ sent' = sent \cup {<<current[w], job[current[w]].nonce>>}
  /\ rpc' = [rpc EXCEPT ![w] = "error"]
  /\ Goto(w, "sent")
  /\ UNCHANGED <<db, session, current, draft, todo, chain, faults, chainEvents>>

\* The call fails or times out: the bytes may have arrived all the same.
SendLost(w) ==
  /\ ReadyToSend(w)
  /\ faults < MaxFaults
  /\ faults' = faults + 1
  /\ pool' \in {pool, IF Deliverable(current[w]) THEN pool \cup {current[w]} ELSE pool}
  /\ sent' = sent \cup {<<current[w], job[current[w]].nonce>>}
  /\ rpc' = [rpc EXCEPT ![w] = "error"]
  /\ Goto(w, "sent")
  /\ UNCHANGED <<db, session, current, draft, todo, mined, final, others, chainEvents>>

\* broadcast's UPDATE; the statement does not look at the row's state.
Record(w) ==
  /\ At(w, "sent")
  /\ job' = [job EXCEPT ![current[w]].state = IF rpc[w] = "ok" THEN "BROADCAST" ELSE "UNKNOWN"]
  /\ EndCycle(w)
  /\ UNCHANGED <<budget, reserved, chain, sent, faults, chainEvents>>

-----------------------------------------------------------------------------
(* Failures of a worker                                                    *)

Crash(w) ==
  /\ pc[w] # "idle"
  /\ faults < MaxFaults
  /\ faults' = faults + 1
  /\ EndCycle(w)
  /\ UNCHANGED <<db, chain, sent, chainEvents>>

\* Postgres ends the session (failover, network): the advisory lock is released and an
\* open transaction is rolled back, but the process does not know yet.
LoseSession(w) ==
  /\ session[w]
  /\ faults < MaxFaults
  /\ faults' = faults + 1
  /\ session' = [session EXCEPT ![w] = FALSE]
  /\ UNCHANGED <<db, pc, current, draft, todo, rpc, chain, sent, chainEvents>>

\* The next statement on a dead session throws and ends the cycle.
Abandon(w) ==
  /\ pc[w] \notin {"idle", "sending"}
  /\ ~session[w]
  /\ EndCycle(w)
  /\ UNCHANGED <<db, chain, sent, faults, chainEvents>>

-----------------------------------------------------------------------------
(* The chain                                                               *)

\* A mined call succeeds at most once; it may always revert, because what was
\* simulated need not hold any more.
Mine(j, ok) ==
  /\ j \in pool
  /\ job[j].nonce = LatestNonce
  /\ ok => ~Done(j, LatestNonce)
  /\ mined' = Append(mined, [job |-> j, ok |-> ok])
  /\ pool' = pool \ {j}
  /\ UNCHANGED <<final, others, db, worker, sent, faults, chainEvents>>

\* One more transaction reaches the required number of confirmations.
Confirm ==
  /\ final < Len(mined)
  /\ final' = final + 1
  /\ UNCHANGED <<mined, pool, others, db, worker, sent, faults, chainEvents>>

\* A reorganisation within the confirmation depth: mined transactions return to the
\* mempool or are forgotten.
Reorg ==
  /\ chainEvents < MaxChainEvents
  /\ chainEvents' = chainEvents + 1
  /\ \E height \in final..(Len(mined) - 1) :
       LET dropped == {mined[i].job : i \in (height + 1)..Len(mined)} \ {Outside}
       IN  /\ mined' = SubSeq(mined, 1, height)
           /\ \E kept \in SUBSET dropped : pool' = pool \cup kept
  /\ UNCHANGED <<final, others, db, worker, sent, faults>>

Drop(j) ==
  /\ j \in pool
  /\ chainEvents < MaxChainEvents
  /\ chainEvents' = chainEvents + 1
  /\ pool' = pool \ {j}
  /\ UNCHANGED <<mined, final, others, db, worker, sent, faults>>

\* The operator uses the key elsewhere.
OutsideTransaction ==
  /\ Cardinality(MinedAt(Outside)) < MaxOutside
  /\ mined' = Append(mined, [job |-> Outside, ok |-> TRUE])
  /\ pool' = {j \in pool : job[j].nonce # LatestNonce}
  /\ UNCHANGED <<final, others, db, worker, sent, faults, chainEvents>>

\* execute and recover are permissionless: somebody else may be first.
OthersExecute(j) ==
  /\ ~Done(j, LatestNonce)
  /\ others' = others \cup {j}
  /\ UNCHANGED <<mined, final, pool, db, worker, sent, faults, chainEvents>>

WorkerStep(w) ==
  \/ Lock(w) \/ Discover(w) \/ NothingToDo(w) \/ Commit(w) \/ Ping(w)
  \/ SendOk(w) \/ SendRefused(w) \/ Record(w) \/ Abandon(w)
  \/ \E j \in Jobs : \/ Settle(w, j) \/ Resend(w, j) \/ Wait(w, j) \/ Skip(w, j)
                    \/ \E cost \in Costs : Prepare(w, j, cost)

WorkerFault(w) == SendLost(w) \/ Crash(w) \/ LoseSession(w)

ChainStep ==
  \/ \E j \in Jobs : \/ \E ok \in BOOLEAN : Mine(j, ok)
                    \/ Drop(j) \/ OthersExecute(j)
  \/ Confirm \/ Reorg \/ OutsideTransaction

Next == ChainStep \/ \E w \in Workers : WorkerStep(w) \/ WorkerFault(w)

Spec == Init /\ [][Next]_vars

\* The interval timer restarts every worker's cycle for ever, blocks are produced and
\* confirmed, and a transaction in the mempool that can be mined is mined.
Fairness ==
  /\ \A w \in Workers : WF_vars(WorkerStep(w))
  /\ WF_vars(Confirm)
  /\ \A j \in Jobs : WF_vars(\E ok \in BOOLEAN : Mine(j, ok))
FairSpec == Spec /\ Fairness

-----------------------------------------------------------------------------
(* Properties                                                              *)

JobType == [state: JobStates, nonce: Nat \cup {-1}, cost: Nat]

\* Every variable has its type.
TypeOK ==
  /\ job \in [Jobs -> JobType]
  /\ budget \in Nat /\ reserved \in Nat
  /\ pc \in [Workers -> {"idle", "reconcile", "signing", "prepared", "committed", "sending", "sent"}]
  /\ session \in [Workers -> BOOLEAN]
  /\ current \in [Workers -> Jobs \cup {NoJob}]
  /\ todo \in [Workers -> SUBSET Jobs]
  /\ rpc \in [Workers -> {"none", "ok", "error"}]
  /\ mined \in Seq([job: Jobs \cup {Outside}, ok: BOOLEAN])
  /\ final \in 0..Len(mined)
  /\ pool \subseteq Jobs /\ others \subseteq Jobs

\* No bytes leave a worker before they are durable: everything that was ever sent, by
\* a healthy worker or by one that has lost its lock or crashed right after, is in the
\* journal under the nonce it was sent with.  So no job ever has two transactions.
SentIsJournaled ==
  /\ \A tx \in sent : tx[1] \in Journaled /\ job[tx[1]].nonce = tx[2]
  /\ \A j \in Jobs : j \in pool \/ MinedAt(j) # {} => \E tx \in sent : tx[1] = j

\* The signer never has two transactions in flight, however many workers run, crash or
\* lose their session.
OneInFlight == Cardinality(ActiveJobs) <= 1

\* A terminal row tells the truth for good: its transaction has its confirmations, and
\* succeeded or reverted as the row says.
TerminalIsTrue ==
  \A j \in Jobs :
    job[j].state \in Terminal =>
      \E i \in MinedAt(j) : i <= final /\ (mined[i].ok <=> job[j].state = "CONFIRMED")

\* The run's budget bounds everything ever signed, across restarts and whatever the
\* processes are configured with: the reservation is the sum of what was signed.
BudgetHeld ==
  /\ reserved = SumFunctionOnSet([j \in Jobs |-> job[j].cost], Journaled)
  /\ reserved <= budget

\* The journal is append-only: a terminal row, the nonce and cost of a signed row, the
\* run's budget and its reservation never go back.
JournalIsFinal ==
  [][/\ \A j \in Jobs :
          /\ job[j].state \in Terminal => job'[j] = job[j]
          /\ job[j].state \in Active =>
               /\ job'[j].state \in Active \cup Terminal
               /\ job'[j].nonce = job[j].nonce /\ job'[j].cost = job[j].cost
     /\ reserved <= reserved'
     /\ budget # 0 => budget' = budget]_vars

\* Gas and fee of the row are within the limits of every process.
EveryoneMaySend(j) == \A w \in Workers : job[j].cost \in WithinCaps[w]

\* What was signed is settled: a journaled transaction reaches a terminal state,
\* although workers crash, calls get lost, the mempool forgets and blocks are
\* reorganised, as long as nobody else uses the key and no process is configured with
\* less gas or a lower fee than the transaction was signed with.  Such a process never
\* sends it again (executor.js:151): alone, or after a restart, it waits for ever.
SignedIsSettled ==
  [](MinedAt(Outside) = {}) =>
    \A j \in Jobs :
      job[j].state \in Active /\ EveryoneMaySend(j) ~> job[j].state \in Terminal
=============================================================================
