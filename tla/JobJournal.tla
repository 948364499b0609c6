----------------------------- MODULE JobJournal -----------------------------
(***************************************************************************)
(* The in-memory job journal (apps/worker/src/tx-journal.js): intents are  *)
(* queued once, leased to a worker for a time, and leave the queue when a  *)
(* worker reports the transaction it sent.  What a worker does between the *)
(* two calls, sending the transaction, is outside the file: it may be      *)
(* slow, or never come back.                                               *)
(***************************************************************************)
EXTENDS Naturals, Sequences

CONSTANTS
  Intents,
  WorkerIds,
  NoWorker,
  Leases,      \* leaseSeconds workers ask for
  MaxTime      \* bound: last instant

ASSUME JournalAssumption == NoWorker \notin WorkerIds /\ Leases \subseteq Nat \ {0} /\ MaxTime \in Nat

VARIABLES
  now,
  queue,       \* insertion order of the Map
  jobs,        \* state, holder, end of lease, and whose transaction is recorded
  holding,     \* per worker, the job object claim returned to it
  grants       \* history: every lease given

journalVars == <<now, queue, jobs, holding, grants>>

States == {"ABSENT", "QUEUED", "LEASED", "BROADCAST"}
LeaseRowType == [state : States, workerId : WorkerIds \cup {NoWorker}, leaseUntil : Nat, tx : WorkerIds \cup {NoWorker}]
Absent == [state |-> "ABSENT", workerId |-> NoWorker, leaseUntil |-> 0, tx |-> NoWorker]
GrantType == [intent : Intents, worker : WorkerIds, from : Nat, until : Nat]
\* What a worker has in hand: the lease, and whether it sent a transaction under it.
HandType == [grant : GrantType, sent : BOOLEAN]

JournalInit ==
  /\ now = 0
  /\ queue = <<>>
  /\ jobs = [i \in Intents |-> Absent]
  /\ holding = [w \in WorkerIds |-> {}]
  /\ grants = {}

Tick ==
  /\ now < MaxTime
  /\ now' = now + 1
  /\ UNCHANGED <<queue, jobs, holding, grants>>

Enqueue(i) ==
  /\ jobs[i].state = "ABSENT"
  /\ queue' = Append(queue, i)
  /\ jobs' = [jobs EXCEPT ![i].state = "QUEUED"]
  /\ UNCHANGED <<now, holding, grants>>

\* Faulty variant of Claimable: the lease ends one second early.
ClaimableEarly(i) ==
  \/ jobs[i].state = "QUEUED"
  \/ jobs[i].state = "LEASED" /\ jobs[i].leaseUntil <= now + 1

Claimable(i) ==
  \/ jobs[i].state = "QUEUED"
  \/ jobs[i].state = "LEASED" /\ jobs[i].leaseUntil <= now

Leased(i, grant) == [state |-> "LEASED", workerId |-> grant.worker, leaseUntil |-> grant.until, tx |-> jobs[i].tx]

\* The first claimable job in insertion order; the worker gets a copy.
Claim(w, lease) ==
  \E k \in DOMAIN queue :
    LET i == queue[k]
        grant == [intent |-> i, worker |-> w, from |-> now, until |-> now + lease] IN
    /\ Claimable(i)
    /\ \A j \in 1..(k - 1) : ~Claimable(queue[j])
    /\ jobs' = [jobs EXCEPT ![i] = Leased(i, grant)]
    /\ holding' = [holding EXCEPT ![w] = {[grant |-> grant, sent |-> FALSE]}]
    /\ grants' = grants \cup {grant}
    /\ UNCHANGED <<now, queue>>

\* The worker sends a transaction for the job it holds, in its own time.
Send(w) ==
  \E h \in holding[w] :
    /\ ~h.sent
    /\ holding' = [holding EXCEPT ![w] = {[h EXCEPT !.sent = TRUE]}]
    /\ UNCHANGED <<now, queue, jobs, grants>>

Recorded(i, w) == [state |-> "BROADCAST", workerId |-> jobs[i].workerId, leaseUntil |-> jobs[i].leaseUntil, tx |-> w]

\* The report is accepted while the job is LEASED, to whomever; otherwise
\* INVALID_BROADCAST is thrown and the worker is left with an unrecorded transaction.
MarkBroadcast(w) ==
  \E h \in holding[w] :
    /\ h.sent
    /\ LET i == h.grant.intent IN
       jobs' = IF jobs[i].state = "LEASED" THEN [jobs EXCEPT ![i] = Recorded(i, w)] ELSE jobs
    /\ holding' = [holding EXCEPT ![w] = {}]
    /\ UNCHANGED <<now, queue, grants>>

\* A worker forgets its job.
Fail(w) ==
  /\ holding[w] # {}
  /\ holding' = [holding EXCEPT ![w] = {}]
  /\ UNCHANGED <<now, queue, jobs, grants>>

JournalNext ==
  \/ Tick
  \/ \E i \in Intents : Enqueue(i)
  \/ \E w \in WorkerIds : Send(w) \/ MarkBroadcast(w) \/ Fail(w)
  \/ \E w \in WorkerIds, lease \in Leases : holding[w] = {} /\ Claim(w, lease)

JournalSpec == JournalInit /\ [][JournalNext]_journalVars

\* classifyBroadcastRecovery of a job.
Recovery(i) ==
  CASE jobs[i].state = "ABSENT" -> "UNKNOWN_INTENT"
    [] jobs[i].tx # NoWorker -> "RECONCILE_EXISTING_TX"
    [] OTHER -> "SAFE_TO_ATTEMPT"

-----------------------------------------------------------------------------
(* Properties                                                              *)

JournalTypeOK ==
  /\ now \in Nat
  /\ queue \in Seq(Intents)
  /\ jobs \in [Intents -> LeaseRowType]
  /\ holding \in [WorkerIds -> SUBSET HandType]
  /\ grants \subseteq GrantType

\* At no instant do two workers hold a lease on one intent, whatever lengths they asked
\* for and however late the earlier one is.
LeasesDisjoint ==
  \A g, h \in grants : g.intent = h.intent /\ g # h => g.until <= h.from \/ h.until <= g.from

\* Once a broadcast is recorded the job is settled: it is not leased again, the late
\* report of another worker does not replace the transaction, and recovery says to
\* reconcile and never to try again.
RecordedIsFinal ==
  [][\A i \in Intents : Recovery(i) = "RECONCILE_EXISTING_TX" => jobs'[i] = jobs[i]]_journalVars

=============================================================================
