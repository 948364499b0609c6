---------------------------- MODULE RelayerProofs ----------------------------
(***************************************************************************)
(* The journal of the relayer for any number of workers, jobs, faults,     *)
(* reorganisations and uses of the key outside.  Every write to the        *)
(* database is made by the worker whose session holds the lock; what the   *)
(* proof adds is what such a worker has in hand, and what one without a    *)
(* session may still do: send bytes that are in the journal.  The          *)
(* reservation is the sum of what was signed, and within the run's budget. *)
(* The last section is about the lease queue in memory.                    *)
(***************************************************************************)
EXTENDS Relayer, JobJournal, SumTheorems

DraftType == [nonce : Nat \cup {-1}, cost : Nat]
Sending == {"committed", "sending", "sent"}

OneSession == \A v, w \in Workers : session[v] /\ session[w] => v = w

\* What a worker has in hand at each point of its cycle.
Hand(w) ==
  /\ pc[w] \in Sending => current[w] \in Journaled
  /\ session[w] =>
       /\ pc[w] \in {"signing", "prepared"} => ActiveJobs = {}
       /\ pc[w] = "prepared" =>
            /\ current[w] \in Jobs /\ job[current[w]].state = "QUEUED"
            /\ draft[w].nonce \in Nat /\ ReservationAllowed(w, draft[w].cost)
       /\ pc[w] \in Sending => current[w] \in ActiveJobs

\* A mined transaction sits at its nonce, so a job is mined at most once.
MinedAtNonce == \A i \in DOMAIN mined : mined[i].job # Outside => job[mined[i].job].nonce = i - 1

OneActive == \A j, k \in ActiveJobs : j = k

\* The state of the service, without the workers' hands.
JournalInv ==
  /\ SentIsJournaled /\ MinedAtNonce /\ TerminalIsTrue /\ OneActive
  /\ reserved <= budget

Types == TypeOK /\ draft \in [Workers -> DraftType]

RelayerInv == Types /\ OneSession /\ (\A w \in Workers : Hand(w)) /\ JournalInv

\* An element of a sequence lies in the set the sequence is over.
LEMMA SequenceElement == ASSUME NEW S, NEW s \in Seq(S), NEW i \in DOMAIN s PROVE s[i] \in S
  OBVIOUS

\* Every mined transaction is a job's or comes from outside.
LEMMA MinedType == ASSUME RelayerInv, NEW i \in DOMAIN mined PROVE mined[i].job \in Jobs \cup {Outside}
<1> DEFINE Tx == [job : Jobs \cup {Outside}, ok : BOOLEAN]
<1>1. mined \in Seq(Tx)
  BY DEF RelayerInv, Types, TypeOK
<1>2. mined[i] \in Tx
  <2> HIDE DEF Tx
  <2> QED
    BY <1>1, SequenceElement
<1> QED
  BY <1>2

\* Empty tables and idle workers satisfy the invariant.
LEMMA RelayerInit == Init => RelayerInv
  BY JobAssumption, BudgetAssumption
  DEF Init, RelayerInv, Types, TypeOK, JobType, JobStates, NoRow, NoDraft, DraftType, OneSession, Hand,
      Sending, JournalInv, SentIsJournaled, MinedAtNonce, TerminalIsTrue, OneActive, ActiveJobs, Active,
      Terminal, MinedAt

\* A step of one worker's process that touches neither database nor chain.
LEMMA ProcessStep ==
  ASSUME RelayerInv, NEW w \in Workers, UNCHANGED <<db, chain, sent>>, Types',
         \A v \in Workers \ {w} :
           pc'[v] = pc[v] /\ session'[v] = session[v] /\ current'[v] = current[v] /\ draft'[v] = draft[v],
         session'[w] => session[w] \/ LockFree,
         Hand(w)'
  PROVE  RelayerInv'
<1>1. OneSession'
  BY DEF RelayerInv, OneSession, LockFree
<1>2. ASSUME NEW v \in Workers PROVE Hand(v)'
  <2>1. CASE v = w
    BY <2>1
  <2>2. CASE v # w
    BY <2>2, <1>2 DEF RelayerInv, Hand, Journaled, ActiveJobs, ReservationAllowed, ReservedAfter, RunBudget, db
  <2> QED
    BY <2>1, <2>2
<1>3. JournalInv'
  BY DEF RelayerInv, JournalInv, SentIsJournaled, MinedAtNonce, TerminalIsTrue, OneActive, Journaled,
         ActiveJobs, MinedAt, db, chain
<1> QED
  BY <1>1, <1>2, <1>3 DEF RelayerInv

\* The end of a cycle, whatever the reason.
LEMMA EndStep ==
  ASSUME RelayerInv, NEW w \in Workers, UNCHANGED <<db, chain, sent>>, EndCycle(w)
  PROVE  RelayerInv'
<1>1. Types'
  BY DEF RelayerInv, Types, TypeOK, EndCycle, DraftType, NoDraft, db, chain
<1>2. Hand(w)' /\ ~session'[w]
  BY DEF RelayerInv, Types, TypeOK, EndCycle, Hand, Sending
<1> QED
  BY <1>1, <1>2, ProcessStep DEF RelayerInv, Types, TypeOK, EndCycle

\* The steps that only move a worker on.
LEMMA LockStep == ASSUME RelayerInv, NEW w \in Workers, Lock(w) PROVE RelayerInv'
<1>1. UNCHANGED <<db, chain, sent>>
  BY DEF Lock, db, chain
<1>2. Types'
  BY DEF Lock, Goto, RelayerInv, Types, TypeOK, db, chain
<1>3. Hand(w)'
  BY DEF Lock, Goto, RelayerInv, Types, TypeOK, Hand, Sending
<1> QED
  BY <1>1, <1>2, <1>3, ProcessStep DEF Lock, Goto, RelayerInv, Types, TypeOK

\* A worker that sends an active job again takes bytes that are in the journal.
LEMMA ResendStep ==
  ASSUME RelayerInv, NEW w \in Workers, NEW j \in Jobs, Resend(w, j) PROVE RelayerInv'
<1>1. UNCHANGED <<db, chain, sent>>
  BY DEF Resend, db, chain
<1>2. Types'
  BY DEF Resend, Goto, RelayerInv, Types, TypeOK, db, chain
<1>3. pc'[w] = "sending" /\ current'[w] = j /\ j \in ActiveJobs /\ j \in Journaled
  BY DEF Resend, Goto, FirstActive, ActiveJobs, Journaled, RelayerInv, Types, TypeOK
<1>4. Hand(w)'
  BY <1>1, <1>3 DEF Hand, Sending, ActiveJobs, Journaled, db
<1> QED
  BY <1>1, <1>2, <1>4, ProcessStep DEF Resend, At, Goto, RelayerInv, Types, TypeOK

\* Signing in memory changes neither table, and the worker knows that nothing is active.
LEMMA PrepareStep ==
  ASSUME RelayerInv, NEW w \in Workers, NEW j \in Jobs, NEW cost \in Costs, Prepare(w, j, cost)
  PROVE  RelayerInv'
<1>1. UNCHANGED <<db, chain, sent>>
  BY DEF Prepare, db, chain
<1>2. LatestNonce \in Nat /\ cost \in Nat
  BY BudgetAssumption DEF RelayerInv, Types, TypeOK, LatestNonce
<1>3. /\ pc'[w] = "prepared" /\ current'[w] = j /\ draft'[w] = [nonce |-> LatestNonce, cost |-> cost]
      /\ session'[w] /\ session[w]
  BY DEF Prepare, At, Goto, RelayerInv, Types, TypeOK
<1>4. Types'
  BY <1>2 DEF Prepare, Goto, RelayerInv, Types, TypeOK, DraftType, db, chain
<1>5. ActiveJobs = {} /\ job[j].state = "QUEUED" /\ ReservationAllowed(w, cost)
  BY DEF Prepare, At, RelayerInv, Hand
<1>6. Hand(w)'
  BY <1>1, <1>2, <1>3, <1>5 DEF Hand, Sending, ActiveJobs, ReservationAllowed, ReservedAfter, RunBudget, db
<1> QED
  BY <1>1, <1>3, <1>4, <1>6, ProcessStep DEF Prepare, Goto, RelayerInv, Types, TypeOK

\* A job that is passed over leaves everything but the worker's list alone.
LEMMA SkipStep ==
  ASSUME RelayerInv, NEW w \in Workers, NEW j \in Jobs, Skip(w, j) PROVE RelayerInv'
<1>1. UNCHANGED <<db, chain, sent>>
  BY DEF Skip, db, chain
<1>2. Types'
  BY DEF Skip, RelayerInv, Types, TypeOK, db, chain
<1>3. Hand(w)'
  BY <1>1 DEF Skip, RelayerInv, Hand, ActiveJobs, Journaled, ReservationAllowed, ReservedAfter, RunBudget, db
<1> QED
  BY <1>1, <1>2, <1>3, ProcessStep DEF Skip, RelayerInv

\* After the COMMIT the job in hand is in the journal, whether or not the session is still alive.
LEMMA PingStep == ASSUME RelayerInv, NEW w \in Workers, Ping(w) PROVE RelayerInv'
<1>1. UNCHANGED <<db, chain, sent>>
  BY DEF Ping, db, chain
<1>2. Types'
  BY DEF Ping, Goto, RelayerInv, Types, TypeOK, db, chain
<1>3. pc[w] = "committed" /\ pc'[w] = "sending" /\ current'[w] = current[w] /\ session'[w] = session[w]
  BY DEF Ping, At, Goto, RelayerInv, Types, TypeOK
<1>4. Hand(w)'
  BY <1>1, <1>3 DEF RelayerInv, Hand, Sending, ActiveJobs, Journaled, db
<1> QED
  BY <1>1, <1>2, <1>4, ProcessStep DEF Ping, Goto, RelayerInv, Types, TypeOK

\* A worker that loses its session keeps what it has in hand, and the lock is free.
LEMMA LoseStep == ASSUME RelayerInv, NEW w \in Workers, LoseSession(w) PROVE RelayerInv'
<1>1. UNCHANGED <<db, chain, sent>>
  BY DEF LoseSession, db, chain
<1>2. Types'
  BY DEF LoseSession, RelayerInv, Types, TypeOK, db, chain
<1>3. Hand(w)' /\ ~session'[w]
  BY <1>1 DEF LoseSession, RelayerInv, Types, TypeOK, Hand, Journaled, db
<1> QED
  BY <1>1, <1>2, <1>3, ProcessStep DEF LoseSession, RelayerInv, Types, TypeOK

-----------------------------------------------------------------------------
(* The broadcast: the bytes of a worker that sends are in the journal.     *)

\* Bytes that leave are in the journal, whatever the call answers.
LEMMA SendStep ==
  ASSUME RelayerInv, NEW w \in Workers, SendOk(w) \/ SendRefused(w) \/ SendLost(w)
  PROVE  RelayerInv'
<1> DEFINE j == current[w]
<1>1. /\ pc[w] = "sending" /\ UNCHANGED <<db, mined, final, others, session, current, draft, todo>>
      /\ pc' = [pc EXCEPT ![w] = "sent"]
      /\ sent' = sent \cup {<<j, job[j].nonce>>}
      /\ pool' \subseteq pool \cup {j}
      /\ rpc' \in {[rpc EXCEPT ![w] = r] : r \in {"ok", "error"}}
  BY DEF SendOk, SendRefused, SendLost, ReadyToSend, Goto, chain, db
<1>2. j \in Journaled /\ j \in Jobs
  BY <1>1 DEF RelayerInv, Hand, Sending, Journaled
<1>3. Types'
  BY <1>1, <1>2 DEF RelayerInv, Types, TypeOK, db
<1>4. OneSession'
  BY <1>1 DEF RelayerInv, OneSession
<1>5. ASSUME NEW v \in Workers PROVE Hand(v)'
  <2>1. pc'[v] = IF v = w THEN "sent" ELSE pc[v]
    BY <1>1 DEF RelayerInv, Types, TypeOK
  <2>2. Hand(v)
    BY DEF RelayerInv
  <2> QED
    BY <1>1, <2>1, <2>2 DEF Hand, Sending, Journaled, ActiveJobs, ReservationAllowed, ReservedAfter, RunBudget, db
<1>6. SentIsJournaled'
  <2>1. Journaled' = Journaled /\ job' = job /\ mined' = mined
    BY <1>1 DEF Journaled, db
  <2>2. \A tx \in sent' : tx[1] \in Journaled' /\ job'[tx[1]].nonce = tx[2]
    BY <1>1, <1>2, <2>1 DEF RelayerInv, JournalInv, SentIsJournaled
  <2>3. \A k \in Jobs : k \in pool' \/ MinedAt(k)' # {} => \E tx \in sent' : tx[1] = k
    <3> SUFFICES ASSUME NEW k \in Jobs, k \in pool' \/ MinedAt(k)' # {} PROVE \E tx \in sent' : tx[1] = k
      OBVIOUS
    <3>1. CASE k = j
      <4>1. <<j, job[j].nonce>> \in sent' /\ <<j, job[j].nonce>>[1] = k
        BY <1>1, <3>1
      <4> QED
        BY <4>1
    <3>2. CASE k # j
      <4>1. k \in pool \/ MinedAt(k) # {}
        BY <1>1, <2>1, <3>2 DEF MinedAt
      <4> QED
        BY <1>1, <4>1 DEF RelayerInv, JournalInv, SentIsJournaled
    <3> QED
      BY <3>1, <3>2
  <2> QED
    BY <2>2, <2>3 DEF SentIsJournaled
<1>7. JournalInv'
  BY <1>1, <1>6 DEF RelayerInv, JournalInv, MinedAtNonce, TerminalIsTrue, OneActive, ActiveJobs, MinedAt, db
<1> QED
  BY <1>3, <1>4, <1>5, <1>7 DEF RelayerInv

-----------------------------------------------------------------------------
(* The writes to the database, all made by the worker that has the lock.   *)

\* Whoever else is at work has no session, so only has to find its job in the journal.
LEMMA OtherHands ==
  ASSUME RelayerInv, NEW w \in Workers, session[w], Journaled \subseteq Journaled',
         NEW v \in Workers \ {w}, pc'[v] = pc[v], session'[v] = session[v], current'[v] = current[v]
  PROVE  Hand(v)'
<1>1. ~session[v]
  BY DEF RelayerInv, OneSession
<1> QED
  BY <1>1 DEF RelayerInv, Hand

\* What an update has to leave in place for the history to stay true.
LEMMA HistoryKept ==
  ASSUME RelayerInv, UNCHANGED <<chain, sent>>,
         \A j \in Journaled : j \in Journaled' /\ job'[j].nonce = job[j].nonce
  PROVE  SentIsJournaled' /\ MinedAtNonce'
<1>1. SentIsJournaled'
  BY DEF RelayerInv, JournalInv, SentIsJournaled, MinedAt, chain
<1>2. ASSUME NEW i \in DOMAIN mined, mined[i].job # Outside PROVE job'[mined[i].job].nonce = i - 1
  <2>1. mined[i].job \in Jobs
    BY <1>2, MinedType
  <2>2. i \in MinedAt(mined[i].job)
    BY DEF MinedAt
  <2>3. mined[i].job \in Journaled
    BY <2>1, <2>2 DEF RelayerInv, JournalInv, SentIsJournaled
  <2> QED
    BY <1>2, <2>3 DEF RelayerInv, JournalInv, MinedAtNonce
<1>3. mined' = mined
  BY DEF chain
<1> QED
  BY <1>1, <1>2, <1>3 DEF MinedAtNonce

\* The hand of the worker that writes, in the state before.
LEMMA OwnHand ==
  ASSUME RelayerInv, NEW w \in Workers, session[w]
  PROVE  /\ pc[w] \in {"signing", "prepared"} => ActiveJobs = {}
         /\ pc[w] = "prepared" =>
              /\ current[w] \in Jobs /\ job[current[w]].state = "QUEUED"
              /\ draft[w].nonce \in Nat /\ ReservationAllowed(w, draft[w].cost)
         /\ pc[w] \in Sending => current[w] \in ActiveJobs
  BY DEF RelayerInv, Hand

\* A row becomes CONFIRMED or REVERTED by what the confirmed chain holds at its nonce.
LEMMA SettleStep ==
  ASSUME RelayerInv, NEW w \in Workers, NEW j \in Jobs, Settle(w, j) PROVE RelayerInv'
<1> DEFINE result == IF Succeeded(j) THEN "CONFIRMED" ELSE "REVERTED"
<1>1. /\ pc[w] = "reconcile" /\ session[w] /\ j \in ActiveJobs
      /\ job' = [job EXCEPT ![j].state = result]
      /\ UNCHANGED <<budget, reserved, worker, chain, sent>>
  BY DEF Settle, At, FirstActive, worker
<1>2. /\ job' \in [Jobs -> JobType]
      /\ job'[j].state = result /\ job'[j].nonce = job[j].nonce
      /\ \A k \in Jobs \ {j} : job'[k] = job[k]
  <2>1. job[j] \in JobType /\ job \in [Jobs -> JobType]
    BY DEF RelayerInv, Types, TypeOK
  <2>2. [job[j] EXCEPT !.state = result] \in JobType
    BY <2>1 DEF JobType, JobStates, Terminal
  <2> QED
    BY <1>1, <2>1, <2>2 DEF JobType
<1>3. Types'
  BY <1>1, <1>2 DEF RelayerInv, Types, TypeOK, worker, chain
<1>4. OneSession'
  BY <1>1 DEF RelayerInv, OneSession, worker
<1>5. /\ ActiveJobs' = ActiveJobs \ {j}
      /\ \A k \in Journaled : k \in Journaled' /\ job'[k].nonce = job[k].nonce
  BY <1>2 DEF ActiveJobs, Journaled, Active, Terminal
<1>6. \A v \in Workers : Hand(v)'
  <2>1. Hand(w)'
    BY <1>1 DEF Hand, Sending, worker
  <2> QED
    BY <1>1, <1>5, <2>1, OtherHands DEF worker
<1>7. SentIsJournaled' /\ MinedAtNonce'
  BY <1>1, <1>5, HistoryKept
<1>8. TerminalIsTrue'
  <2>1. mined' = mined /\ final' = final
    BY <1>1 DEF chain
  <2>2. PICK i \in MinedAt(j) : i <= final
    BY DEF Settle, Confirmed
  <2>3. \A k \in MinedAt(j) : k = i
    <3>1. j # Outside /\ \A k \in MinedAt(j) : k \in DOMAIN mined /\ mined[k].job = j
      BY JobAssumption DEF MinedAt
    <3>2. \A k \in MinedAt(j) : k \in Nat /\ job[j].nonce = k - 1
      BY <3>1 DEF RelayerInv, JournalInv, MinedAtNonce, Types, TypeOK
    <3> QED
      BY <3>2
  <2>4. mined[i].ok <=> result = "CONFIRMED"
    BY <2>2, <2>3 DEF Succeeded
  <2> QED
    BY <1>2, <2>1, <2>2, <2>4 DEF RelayerInv, JournalInv, TerminalIsTrue, MinedAt
<1>9. OneActive' /\ reserved' <= budget'
  BY <1>1, <1>5 DEF RelayerInv, JournalInv, OneActive
<1> QED
  BY <1>3, <1>4, <1>6, <1>7, <1>8, <1>9 DEF RelayerInv, JournalInv

\* New rows are QUEUED, and nothing is active when they are made.
LEMMA DiscoverStep == ASSUME RelayerInv, NEW w \in Workers, Discover(w) PROVE RelayerInv'
<1>1. /\ pc[w] = "reconcile" /\ session[w] /\ ActiveJobs = {}
      /\ pc' = [pc EXCEPT ![w] = "signing"]
      /\ UNCHANGED <<budget, reserved, session, current, draft, rpc, chain, sent>>
  BY DEF Discover, At, Goto, JournalSettled
<1> PICK found \in SUBSET {j \in Jobs : ~Done(j, final)} :
      /\ job' = [j \in Jobs |-> IF j \in found /\ job[j].state = "NONE"
                                THEN [job[j] EXCEPT !.state = "QUEUED"] ELSE job[j]]
      /\ todo' = [todo EXCEPT ![w] = found]
  BY DEF Discover
<1>2. \A j \in Jobs :
        /\ job'[j] \in JobType
        /\ job'[j] = job[j] \/ (job[j].state = "NONE" /\ job'[j].state = "QUEUED")
  <2> TAKE j \in Jobs
  <2>1. job[j] \in JobType
    BY DEF RelayerInv, Types, TypeOK
  <2>2. [job[j] EXCEPT !.state = "QUEUED"] \in JobType /\ [job[j] EXCEPT !.state = "QUEUED"].state = "QUEUED"
    BY <2>1 DEF JobType, JobStates
  <2> QED
    BY <2>1, <2>2
<1>3. job' \in [Jobs -> JobType]
  BY <1>2
<1>4. Types'
  BY <1>1, <1>3 DEF RelayerInv, Types, TypeOK, chain
<1>5. /\ ActiveJobs' = {}
      /\ \A k \in Journaled : k \in Journaled' /\ job'[k] = job[k]
      /\ \A k \in Jobs : job'[k].state \in Terminal => job'[k] = job[k]
  BY <1>1, <1>2 DEF ActiveJobs, Journaled, Active, Terminal
<1>6. OneSession'
  BY <1>1 DEF RelayerInv, OneSession
<1>7. \A v \in Workers : Hand(v)'
  <2>1. pc'[w] = "signing" /\ \A v \in Workers \ {w} : pc'[v] = pc[v]
    BY <1>1 DEF RelayerInv, Types, TypeOK
  <2>2. Hand(w)'
    BY <1>5, <2>1 DEF Hand, Sending
  <2> QED
    BY <1>1, <1>5, <2>1, <2>2, OtherHands
<1>8. SentIsJournaled' /\ MinedAtNonce'
  BY <1>1, <1>5, HistoryKept
<1>9. TerminalIsTrue' /\ OneActive' /\ reserved' <= budget'
  BY <1>1, <1>5 DEF RelayerInv, JournalInv, TerminalIsTrue, OneActive, MinedAt, chain
<1> QED
  BY <1>4, <1>6, <1>7, <1>8, <1>9 DEF RelayerInv, JournalInv

\* The COMMIT makes the one active row, and the reservation with it, while the lock is held.
LEMMA CommitStep == ASSUME RelayerInv, NEW w \in Workers, Commit(w) PROVE RelayerInv'
<1> DEFINE j == current[w]
           row == [state |-> "SIGNED", nonce |-> draft[w].nonce, cost |-> draft[w].cost]
<1>1. /\ pc[w] = "prepared" /\ session[w]
      /\ job' = [job EXCEPT ![j] = row]
      /\ budget' = RunBudget(w) /\ reserved' = ReservedAfter(draft[w].cost)
      /\ pc' = [pc EXCEPT ![w] = "committed"]
      /\ UNCHANGED <<session, current, draft, todo, rpc, chain, sent>>
  BY DEF Commit, At, Goto
<1>2. /\ ActiveJobs = {} /\ j \in Jobs /\ job[j].state = "QUEUED"
      /\ draft[w].nonce \in Nat /\ draft[w].cost \in Nat /\ ReservationAllowed(w, draft[w].cost)
  BY <1>1, OwnHand DEF RelayerInv, Types, DraftType
<1>3. /\ job' \in [Jobs -> JobType] /\ job'[j] = row
      /\ \A k \in Jobs \ {j} : job'[k] = job[k]
  <2>1. row \in JobType
    BY <1>2 DEF JobType, JobStates, Active
  <2> QED
    BY <1>1, <1>2, <2>1 DEF RelayerInv, Types, TypeOK
<1>4. budget' \in Nat /\ reserved' \in Nat /\ reserved' <= budget'
  <2>1. RunBudget(w) \in Nat /\ Limit[w] \in Nat
    BY BudgetAssumption DEF RelayerInv, Types, TypeOK, RunBudget
  <2>2. reserved \in Nat /\ ReservedAfter(draft[w].cost) \in Nat
    BY <1>2 DEF RelayerInv, Types, TypeOK, ReservedAfter
  <2>3. ReservedAfter(draft[w].cost) <= RunBudget(w)
    BY <1>2, <2>1, <2>2 DEF ReservationAllowed, Least
  <2> QED
    BY <1>1, <2>1, <2>2, <2>3
<1>5. Types'
  BY <1>1, <1>3, <1>4 DEF RelayerInv, Types, TypeOK, chain
<1>6. OneSession'
  BY <1>1 DEF RelayerInv, OneSession
<1>7. /\ ActiveJobs' = {j}
      /\ \A k \in Journaled : k # j /\ k \in Journaled' /\ job'[k] = job[k]
      /\ \A k \in Jobs : job'[k].state \in Terminal => job'[k] = job[k]
      /\ j \in Journaled'
  BY <1>2, <1>3 DEF ActiveJobs, Journaled, Active, Terminal
<1>8. \A v \in Workers : Hand(v)'
  <2>1. pc'[w] = "committed" /\ \A v \in Workers \ {w} : pc'[v] = pc[v]
    BY <1>1 DEF RelayerInv, Types, TypeOK
  <2>2. Hand(w)'
    BY <1>1, <1>7, <2>1 DEF Hand, Sending
  <2> QED
    BY <1>1, <1>7, <2>1, <2>2, OtherHands
<1>9. SentIsJournaled' /\ MinedAtNonce'
  BY <1>1, <1>7, HistoryKept
<1>10. TerminalIsTrue' /\ OneActive'
  BY <1>1, <1>7 DEF RelayerInv, JournalInv, TerminalIsTrue, OneActive, MinedAt, chain
<1> QED
  BY <1>4, <1>5, <1>6, <1>8, <1>9, <1>10 DEF RelayerInv, JournalInv

\* The last UPDATE of a cycle keeps the row active, under the nonce it was signed with.
LEMMA RecordStep == ASSUME RelayerInv, NEW w \in Workers, Record(w) PROVE RelayerInv'
<1> DEFINE j == current[w]
           state == IF rpc[w] = "ok" THEN "BROADCAST" ELSE "UNKNOWN"
<1>1. /\ pc[w] = "sent" /\ session[w]
      /\ job' = [job EXCEPT ![j].state = state]
      /\ EndCycle(w) /\ UNCHANGED <<budget, reserved, chain, sent>>
  BY DEF Record, At
<1>2. j \in ActiveJobs /\ j \in Jobs
  BY <1>1, OwnHand DEF Sending, ActiveJobs
<1>3. /\ job' \in [Jobs -> JobType]
      /\ job'[j].state = state /\ job'[j].nonce = job[j].nonce
      /\ \A k \in Jobs \ {j} : job'[k] = job[k]
  <2>1. job[j] \in JobType /\ job \in [Jobs -> JobType]
    BY <1>2 DEF RelayerInv, Types, TypeOK
  <2>2. [job[j] EXCEPT !.state = state] \in JobType
    BY <2>1 DEF JobType, JobStates, Active
  <2> QED
    BY <1>1, <1>2, <2>1, <2>2 DEF JobType
<1>4. /\ pc' = [pc EXCEPT ![w] = "idle"] /\ session' = [session EXCEPT ![w] = FALSE]
      /\ \A v \in Workers \ {w} : current'[v] = current[v]
  BY <1>1 DEF EndCycle, RelayerInv, Types, TypeOK
<1>5. Types'
  BY <1>1, <1>3 DEF RelayerInv, Types, TypeOK, EndCycle, DraftType, NoDraft, chain
<1>6. OneSession'
  BY <1>4 DEF RelayerInv, Types, TypeOK, OneSession
<1>7. /\ ActiveJobs' = ActiveJobs
      /\ \A k \in Journaled : k \in Journaled' /\ job'[k].nonce = job[k].nonce
      /\ \A k \in Jobs : job'[k].state \in Terminal => job'[k] = job[k]
  BY <1>2, <1>3 DEF ActiveJobs, Journaled, Active, Terminal
<1>8. \A v \in Workers : Hand(v)'
  <2>1. /\ pc'[w] = "idle" /\ ~session'[w]
        /\ \A v \in Workers \ {w} : pc'[v] = pc[v] /\ session'[v] = session[v]
    BY <1>4 DEF RelayerInv, Types, TypeOK
  <2>2. Hand(w)'
    BY <2>1 DEF Hand, Sending
  <2> QED
    BY <1>1, <1>4, <1>7, <2>1, <2>2, OtherHands
<1>9. SentIsJournaled' /\ MinedAtNonce'
  BY <1>1, <1>7, HistoryKept
<1>10. TerminalIsTrue'
  <2>1. mined' = mined /\ final' = final
    BY <1>1 DEF chain
  <2> SUFFICES ASSUME NEW k \in Jobs, job'[k].state \in Terminal
               PROVE  \E i \in MinedAt(k)' : i <= final' /\ (mined'[i].ok <=> job'[k].state = "CONFIRMED")
    BY DEF TerminalIsTrue
  <2>2. job'[k] = job[k]
    BY <1>7
  <2>3. \E i \in MinedAt(k) : i <= final /\ (mined[i].ok <=> job[k].state = "CONFIRMED")
    BY <2>2 DEF RelayerInv, JournalInv, TerminalIsTrue
  <2> QED
    BY <2>1, <2>2, <2>3 DEF MinedAt
<1>11. OneActive' /\ reserved' <= budget'
  BY <1>1, <1>7 DEF RelayerInv, JournalInv, OneActive
<1> QED
  BY <1>5, <1>6, <1>8, <1>9, <1>10, <1>11 DEF RelayerInv, JournalInv

-----------------------------------------------------------------------------
(* The chain moves.                                                        *)

\* What a chain step may do: confirmed transactions stay, and whatever is mined or
\* pending afterwards was so before or comes from outside.
LEMMA ChainMoves ==
  ASSUME RelayerInv, UNCHANGED <<db, worker, sent>>,
         mined' \in Seq([job : Jobs \cup {Outside}, ok : BOOLEAN]),
         final' \in 0..Len(mined'), final <= final', pool' \subseteq Jobs, others' \subseteq Jobs,
         \A i \in DOMAIN mined : i <= final => i \in DOMAIN mined' /\ mined'[i] = mined[i],
         \A i \in DOMAIN mined' :
           \/ mined'[i].job = Outside
           \/ i \in DOMAIN mined /\ mined'[i] = mined[i]
           \/ mined'[i].job \in pool /\ job[mined'[i].job].nonce = i - 1,
         \A j \in pool' : j \in pool \/ MinedAt(j) # {}
  PROVE  RelayerInv'
<1>1. Types' /\ OneSession'
  BY DEF RelayerInv, Types, TypeOK, OneSession, worker, db
<1>2. \A w \in Workers : Hand(w)'
  BY DEF RelayerInv, Hand, Journaled, ActiveJobs, ReservationAllowed, ReservedAfter, RunBudget, worker, db
<1>3. MinedAtNonce'
  BY DEF RelayerInv, JournalInv, MinedAtNonce, db
<1>4. SentIsJournaled'
  <2>1. \A tx \in sent' : tx[1] \in Journaled' /\ job'[tx[1]].nonce = tx[2]
    BY DEF RelayerInv, JournalInv, SentIsJournaled, Journaled, db
  <2>2. ASSUME NEW j \in Jobs, j \in pool' \/ MinedAt(j)' # {} PROVE \E tx \in sent' : tx[1] = j
    <3>1. ASSUME NEW i \in MinedAt(j)' PROVE j \in pool \/ MinedAt(j) # {}
      <4>1. i \in DOMAIN mined' /\ mined'[i].job = j
        BY <3>1 DEF MinedAt
      <4>2. CASE i \in DOMAIN mined /\ mined'[i] = mined[i]
        BY <4>1, <4>2 DEF MinedAt
      <4> QED
        BY <4>1, <4>2, JobAssumption
    <3>2. j \in pool \/ MinedAt(j) # {}
      BY <2>2, <3>1
    <3> QED
      BY <3>2 DEF RelayerInv, JournalInv, SentIsJournaled
  <2> QED
    BY <2>1, <2>2 DEF SentIsJournaled
<1>5. TerminalIsTrue'
  <2> SUFFICES ASSUME NEW j \in Jobs, job'[j].state \in Terminal
               PROVE  \E i \in MinedAt(j)' : i <= final' /\ (mined'[i].ok <=> job'[j].state = "CONFIRMED")
    BY DEF TerminalIsTrue
  <2>1. PICK i \in MinedAt(j) : i <= final /\ (mined[i].ok <=> job[j].state = "CONFIRMED")
    BY DEF RelayerInv, JournalInv, TerminalIsTrue, db
  <2>2. i \in Nat /\ i \in DOMAIN mined /\ mined[i].job = j
    BY DEF MinedAt, RelayerInv, Types, TypeOK
  <2>3. i \in MinedAt(j)' /\ mined'[i] = mined[i]
    BY <2>1, <2>2 DEF MinedAt
  <2>4. i <= final'
    BY <2>1, <2>2 DEF RelayerInv, Types, TypeOK
  <2> QED
    BY <2>1, <2>3, <2>4 DEF db
<1>6. OneActive' /\ reserved' <= budget'
  BY DEF RelayerInv, JournalInv, OneActive, ActiveJobs, db
<1> QED
  BY <1>1, <1>2, <1>3, <1>4, <1>5, <1>6 DEF RelayerInv, JournalInv

\* Blocks, drops, reorganisations of unconfirmed blocks and uses of the key outside keep what is confirmed.
LEMMA ChainStepKeeps == ASSUME RelayerInv, ChainStep PROVE RelayerInv'
<1> DEFINE Tx == [job : Jobs \cup {Outside}, ok : BOOLEAN]
<1>1. /\ mined \in Seq(Tx) /\ final \in 0..Len(mined) /\ pool \subseteq Jobs /\ others \subseteq Jobs
      /\ DOMAIN mined = 1..Len(mined) /\ Len(mined) \in Nat
  BY DEF RelayerInv, Types, TypeOK
<1>2. ASSUME NEW tx \in Tx, mined' = Append(mined, tx), final' = final
      PROVE  /\ mined' \in Seq(Tx) /\ final' \in 0..Len(mined')
             /\ DOMAIN mined' = 1..(Len(mined) + 1)
             /\ \A i \in DOMAIN mined : i \in DOMAIN mined' /\ mined'[i] = mined[i]
             /\ mined'[Len(mined) + 1] = tx
             /\ \A i \in DOMAIN mined' : i \in DOMAIN mined \/ i = Len(mined) + 1
  <2> HIDE DEF Tx
  <2> QED
    BY <1>1, <1>2
<1>3. ASSUME NEW j \in Jobs, NEW ok \in BOOLEAN, Mine(j, ok) PROVE RelayerInv'
  <2> DEFINE tx == [job |-> j, ok |-> ok]
  <2>1. /\ tx \in Tx /\ mined' = Append(mined, tx) /\ j \in pool /\ job[j].nonce = Len(mined)
        /\ pool' = pool \ {j} /\ UNCHANGED <<final, others, db, worker, sent>>
    BY <1>3 DEF Mine, LatestNonce
  <2>2. \A i \in DOMAIN mined' :
          \/ i \in DOMAIN mined /\ mined'[i] = mined[i]
          \/ mined'[i].job \in pool /\ job[mined'[i].job].nonce = i - 1
    BY <1>1, <1>2, <2>1
  <2> QED
    BY <1>1, <1>2, <2>1, <2>2, ChainMoves
<1>4. ASSUME OutsideTransaction PROVE RelayerInv'
  <2> DEFINE tx == [job |-> Outside, ok |-> TRUE]
  <2>1. /\ tx \in Tx /\ mined' = Append(mined, tx)
        /\ pool' \subseteq pool /\ UNCHANGED <<final, others, db, worker, sent>>
    BY <1>4 DEF OutsideTransaction
  <2>2. \A i \in DOMAIN mined' : mined'[i].job = Outside \/ (i \in DOMAIN mined /\ mined'[i] = mined[i])
    BY <1>1, <1>2, <2>1
  <2> QED
    BY <1>1, <1>2, <2>1, <2>2, ChainMoves
<1>5. ASSUME Confirm PROVE RelayerInv'
  <2>1. final' = final + 1 /\ final < Len(mined) /\ UNCHANGED <<mined, pool, others, db, worker, sent>>
    BY <1>5 DEF Confirm
  <2>2. final' \in 0..Len(mined') /\ final <= final'
    BY <1>1, <2>1
  <2> QED
    BY <1>1, <2>1, <2>2, ChainMoves
<1>6. ASSUME NEW j \in Jobs, Drop(j) \/ OthersExecute(j) PROVE RelayerInv'
  <2>1. /\ pool' \subseteq pool /\ others' \subseteq Jobs
        /\ UNCHANGED <<mined, final, db, worker, sent>>
    BY <1>1, <1>6 DEF Drop, OthersExecute
  <2> QED
    BY <1>1, <2>1, ChainMoves
<1>7. ASSUME Reorg PROVE RelayerInv'
  <2>1. UNCHANGED <<final, others, db, worker, sent>>
    BY <1>7 DEF Reorg
  <2>2. PICK height \in final..(Len(mined) - 1) :
          LET dropped == {mined[i].job : i \in (height + 1)..Len(mined)} \ {Outside}
          IN  mined' = SubSeq(mined, 1, height) /\ \E kept \in SUBSET dropped : pool' = pool \cup kept
    BY <1>7 DEF Reorg
  <2>3. height \in Nat /\ final <= height /\ height <= Len(mined)
    BY <1>1
  <2>4. /\ mined' \in Seq(Tx) /\ Len(mined') = height /\ DOMAIN mined' = 1..height
        /\ \A i \in 1..height : mined'[i] = mined[i]
    <3> HIDE DEF Tx
    <3> QED
      BY <1>1, <2>2, <2>3
  <2>5. \A j \in pool' : j \in Jobs /\ (j \in pool \/ MinedAt(j) # {})
    <3> SUFFICES ASSUME NEW j \in pool', j \notin pool PROVE j \in Jobs /\ MinedAt(j) # {}
      BY <1>1
    <3>1. PICK i \in (height + 1)..Len(mined) : mined[i].job = j /\ j # Outside
      BY <2>2
    <3>2. i \in DOMAIN mined
      BY <1>1, <2>3
    <3> QED
      BY <3>1, <3>2, MinedType DEF MinedAt
  <2>6. /\ final' \in 0..Len(mined') /\ final <= final'
        /\ \A i \in DOMAIN mined : i <= final => i \in DOMAIN mined' /\ mined'[i] = mined[i]
        /\ \A i \in DOMAIN mined' : i \in DOMAIN mined /\ mined'[i] = mined[i]
    BY <1>1, <2>1, <2>3, <2>4
  <2> QED
    BY <1>1, <2>1, <2>4, <2>5, <2>6, ChainMoves
<1> QED
  BY <1>3, <1>4, <1>5, <1>6, <1>7 DEF ChainStep

-----------------------------------------------------------------------------
\* Every step of workers and chain keeps the invariant.
LEMMA RelayerStep == RelayerInv /\ [Next]_vars => RelayerInv'
<1> SUFFICES ASSUME RelayerInv, [Next]_vars PROVE RelayerInv'
  OBVIOUS
<1>1. CASE UNCHANGED vars
  <2>1. UNCHANGED <<db, worker, chain, sent>>
    BY <1>1 DEF vars
  <2>2. /\ mined \in Seq([job : Jobs \cup {Outside}, ok : BOOLEAN])
        /\ final \in 0..Len(mined) /\ final <= final /\ pool \subseteq Jobs /\ others \subseteq Jobs
    BY DEF RelayerInv, Types, TypeOK
  <2> QED
    BY <2>1, <2>2, ChainMoves DEF chain
<1>2. CASE ChainStep
  BY <1>2, ChainStepKeeps
<1>3. ASSUME NEW w \in Workers, WorkerStep(w) PROVE RelayerInv'
  <2>1. CASE Lock(w)
    BY <2>1, LockStep
  <2>2. CASE Discover(w)
    BY <2>2, DiscoverStep
  <2>3. CASE NothingToDo(w) \/ Abandon(w)
    BY <2>3, EndStep DEF NothingToDo, Abandon
  <2>4. CASE Commit(w)
    BY <2>4, CommitStep
  <2>5. CASE Ping(w)
    BY <2>5, PingStep
  <2>6. CASE SendOk(w) \/ SendRefused(w)
    BY <2>6, SendStep
  <2>7. CASE Record(w)
    BY <2>7, RecordStep
  <2>8. ASSUME NEW j \in Jobs,
               Settle(w, j) \/ Resend(w, j) \/ Wait(w, j) \/ Skip(w, j) \/ \E cost \in Costs : Prepare(w, j, cost)
        PROVE  RelayerInv'
    <3>1. CASE Settle(w, j)
      BY <3>1, SettleStep
    <3>2. CASE Resend(w, j)
      BY <3>2, ResendStep
    <3>3. CASE Wait(w, j)
      BY <3>3, EndStep DEF Wait
    <3>4. CASE Skip(w, j)
      BY <3>4, SkipStep
    <3>5. CASE \E cost \in Costs : Prepare(w, j, cost)
      BY <3>5, PrepareStep
    <3> QED
      BY <2>8, <3>1, <3>2, <3>3, <3>4, <3>5
  <2> QED
    BY <1>3, <2>1, <2>2, <2>3, <2>4, <2>5, <2>6, <2>7, <2>8 DEF WorkerStep
<1>4. ASSUME NEW w \in Workers, WorkerFault(w) PROVE RelayerInv'
  <2>1. CASE SendLost(w)
    BY <2>1, SendStep
  <2>2. CASE Crash(w)
    BY <2>2, EndStep DEF Crash
  <2>3. CASE LoseSession(w)
    BY <2>3, LoseStep
  <2> QED
    BY <1>4, <2>1, <2>2, <2>3 DEF WorkerFault
<1> QED
  BY <1>1, <1>2, <1>3, <1>4 DEF Next

\* The invariant of the relayer holds in every state.
LEMMA RelayerInductive == Spec => []RelayerInv
<1>1. Init => RelayerInv
  BY RelayerInit
<1>2. RelayerInv /\ [Next]_vars => RelayerInv'
  BY RelayerStep
<1> QED
  BY <1>1, <1>2, PTL DEF Spec

\* Every variable keeps its type, for any workers, jobs, costs and limits.
THEOREM RelayerTypeOK == Spec => []TypeOK
<1>1. RelayerInv => TypeOK
  BY DEF RelayerInv, Types
<1> QED
  BY <1>1, RelayerInductive, PTL

\* No bytes leave a worker before they are durable: whatever was ever sent, by a worker
\* that lost its session or crashed right after, is in the journal under its nonce, and
\* everything in the mempool or mined was sent that way.
THEOREM RelayerJournaled == Spec => []SentIsJournaled
<1>1. RelayerInv => SentIsJournaled
  BY DEF RelayerInv, JournalInv
<1> QED
  BY <1>1, RelayerInductive, PTL

\* Any number of workers has at most one transaction in flight between them.
THEOREM RelayerOneInFlight == Spec => []OneInFlight
<1>1. RelayerInv => OneInFlight
  <2> SUFFICES ASSUME RelayerInv PROVE Cardinality(ActiveJobs) <= 1
    BY DEF OneInFlight
  <2>1. CASE ActiveJobs = {}
    BY <2>1, FS_EmptySet
  <2>2. CASE ActiveJobs # {}
    <3>1. PICK j \in ActiveJobs : ActiveJobs = {j}
      BY <2>2 DEF RelayerInv, JournalInv, OneActive
    <3> QED
      BY <3>1, FS_Singleton
  <2> QED
    BY <2>1, <2>2
<1> QED
  BY <1>1, RelayerInductive, PTL

\* A terminal row tells what the confirmed chain holds, whatever is reorganised and
\* whoever else uses the key.
THEOREM RelayerTerminal == Spec => []TerminalIsTrue
<1>1. RelayerInv => TerminalIsTrue
  BY DEF RelayerInv, JournalInv
<1> QED
  BY <1>1, RelayerInductive, PTL

-----------------------------------------------------------------------------
(* The reservation.                                                        *)

CostOf == [j \in Jobs |-> job[j].cost]
ReservedIsSigned == reserved = SumFunctionOnSet(CostOf, Journaled)

\* As long as no row is signed or its cost rewritten, the sum stays what it is.
LEMMA SumStays ==
  ASSUME RelayerInv, ReservedIsSigned, Journaled' = Journaled, reserved' = reserved,
         \A j \in Journaled : job'[j].cost = job[j].cost
  PROVE  ReservedIsSigned'
<1> DEFINE f == CostOf
           g == CostOf'
           S == Journaled
<1>1. Journaled \subseteq Jobs
  BY DEF Journaled
<1>2. \A j \in S : f[j] \in Nat /\ f[j] = g[j]
  BY <1>1 DEF CostOf, RelayerInv, Types, TypeOK, JobType
<1>3. IsFiniteSet(S)
  BY <1>1, JobsAssumption, FS_Subset
<1> HIDE DEF f, g, S
<1>4. SumFunctionOnSet(f, S) = SumFunctionOnSet(g, S)
  BY <1>2, <1>3, SumEqual
<1> QED
  BY <1>4 DEF ReservedIsSigned, f, g, S

\* A commit signs one row more and reserves its cost.
LEMMA CommitReserves ==
  ASSUME RelayerInv, RelayerInv', ReservedIsSigned, NEW w \in Workers, Commit(w)
  PROVE  ReservedIsSigned'
<1> DEFINE y == current[w]
           f == CostOf
           g == CostOf'
           S == Journaled
<1>1. session[w] /\ pc[w] = "prepared"
  BY DEF Commit, At
<1>2. y \in Jobs /\ job[y].state = "QUEUED" /\ draft[w].cost \in Nat
  BY <1>1, OwnHand DEF RelayerInv, Types, DraftType
<1>3. /\ job' = [job EXCEPT ![y] = [state |-> "SIGNED", nonce |-> draft[w].nonce, cost |-> draft[w].cost]]
      /\ reserved' = reserved + draft[w].cost
  BY DEF Commit, ReservedAfter
<1>4. /\ job'[y].state = "SIGNED" /\ job'[y].cost = draft[w].cost
      /\ \A k \in Jobs \ {y} : job'[k] = job[k]
  BY <1>2, <1>3 DEF RelayerInv, Types, TypeOK
<1>5. S \subseteq Jobs /\ y \notin S /\ Journaled' = S \cup {y}
  BY <1>2, <1>4 DEF Journaled, Active, Terminal
<1>6. /\ \A x \in S : f[x] \in Nat /\ f[x] = g[x]
      /\ \A x \in S \cup {y} : g[x] \in Nat
      /\ g[y] = draft[w].cost
  BY <1>2, <1>4, <1>5 DEF CostOf, RelayerInv, Types, TypeOK, JobType
<1>7. IsFiniteSet(S)
  BY <1>5, JobsAssumption, FS_Subset
<1>8. reserved = SumFunctionOnSet(f, S)
  BY DEF ReservedIsSigned
<1> HIDE DEF f, g, S, y
<1>9. SumFunctionOnSet(g, S \cup {y}) = SumFunctionOnSet(g, S) + g[y]
  BY <1>5, <1>6, <1>7, SumAdd
<1>10. SumFunctionOnSet(f, S) = SumFunctionOnSet(g, S)
  BY <1>6, <1>7, SumEqual
<1>11. reserved' = SumFunctionOnSet(g, Journaled')
  BY <1>3, <1>5, <1>6, <1>8, <1>9, <1>10
<1> QED
  BY <1>11 DEF ReservedIsSigned, g

\* Before anything is signed nothing is reserved.
LEMMA InitReserved == Init => ReservedIsSigned
<1> SUFFICES ASSUME Init PROVE ReservedIsSigned
  OBVIOUS
<1>1. Journaled = {} /\ reserved = 0
  BY DEF Init, Journaled, NoRow, Active, Terminal
<1>2. SumFunctionOnSet(CostOf, {}) = 0
  <2> DEFINE f == CostOf
  <2> HIDE DEF f
  <2>1. SumFunctionOnSet(f, {}) = 0
    BY FS_EmptySet, SumZero
  <2> QED
    BY <2>1 DEF f
<1> QED
  BY <1>1, <1>2 DEF ReservedIsSigned

\* Every step keeps the reservation equal to what was signed.
LEMMA StepReserved ==
  ASSUME RelayerInv, RelayerInv', ReservedIsSigned, [Next]_vars
  PROVE  ReservedIsSigned'
<1>1. job \in [Jobs -> JobType]
  BY DEF RelayerInv, Types, TypeOK
<1>2. CASE UNCHANGED db
  <2>1. Journaled' = Journaled /\ reserved' = reserved /\ job' = job
    BY <1>2 DEF db, Journaled
  <2> QED
    BY <2>1, SumStays
<1>3. ASSUME NEW j \in ActiveJobs, NEW state \in Active \cup Terminal,
             job' = [job EXCEPT ![j].state = state], reserved' = reserved
      PROVE  ReservedIsSigned'
  <2>1. j \in Jobs /\ job[j] \in JobType
    BY <1>1 DEF ActiveJobs
  <2>2. /\ job'[j].state = state /\ job'[j].cost = job[j].cost
        /\ \A k \in Jobs \ {j} : job'[k] = job[k]
    BY <1>1, <1>3, <2>1 DEF JobType
  <2>3. Journaled' = Journaled
    BY <2>1, <2>2 DEF Journaled, ActiveJobs
  <2>4. \A k \in Journaled : job'[k].cost = job[k].cost
    BY <2>2 DEF Journaled
  <2> QED
    BY <1>3, <2>3, <2>4, SumStays
<1>4. ASSUME NEW w \in Workers, Discover(w) PROVE ReservedIsSigned'
  <2>1. PICK found \in SUBSET {j \in Jobs : ~Done(j, final)} :
          job' = [j \in Jobs |-> IF j \in found /\ job[j].state = "NONE"
                                 THEN [job[j] EXCEPT !.state = "QUEUED"] ELSE job[j]]
    BY <1>4 DEF Discover
  <2>2. \A j \in Jobs : \/ job'[j] = job[j]
                        \/ job[j].state = "NONE" /\ job'[j].state = "QUEUED"
    BY <1>1, <2>1 DEF JobType
  <2>3. Journaled' = Journaled
    BY <2>2 DEF Journaled, Active, Terminal
  <2>4. \A k \in Journaled : job'[k].cost = job[k].cost
    BY <2>2 DEF Journaled, Active, Terminal
  <2> QED
    BY <1>4, <2>3, <2>4, SumStays DEF Discover
<1>5. ASSUME NEW w \in Workers, Record(w) PROVE ReservedIsSigned'
  <2>1. current[w] \in ActiveJobs
    BY <1>5, OwnHand DEF Record, At, Sending
  <2> DEFINE state == IF rpc[w] = "ok" THEN "BROADCAST" ELSE "UNKNOWN"
  <2>2. state \in Active \cup Terminal /\ job' = [job EXCEPT ![current[w]].state = state]
        /\ reserved' = reserved
    BY <1>5 DEF Record, Active
  <2> HIDE DEF state
  <2> QED
    BY <1>3, <2>1, <2>2
<1>6. ASSUME NEW w \in Workers, NEW j \in Jobs, Settle(w, j) PROVE ReservedIsSigned'
  <2> DEFINE state == IF Succeeded(j) THEN "CONFIRMED" ELSE "REVERTED"
  <2>1. state \in Active \cup Terminal /\ job' = [job EXCEPT ![j].state = state]
        /\ reserved' = reserved /\ j \in ActiveJobs
    BY <1>6 DEF Settle, FirstActive, Terminal
  <2> HIDE DEF state
  <2> QED
    BY <1>3, <2>1
<1>7. ASSUME NEW w \in Workers, WorkerStep(w)
      PROVE  UNCHANGED db \/ Discover(w) \/ Commit(w) \/ Record(w) \/ \E j \in Jobs : Settle(w, j)
  BY <1>7 DEF WorkerStep, Lock, NothingToDo, Ping, SendOk, SendRefused, Abandon, Resend, Wait, Skip, Prepare
<1>8. ASSUME NEW w \in Workers, WorkerFault(w) PROVE UNCHANGED db
  BY <1>8 DEF WorkerFault, SendLost, Crash, LoseSession
<1>9. ChainStep \/ UNCHANGED vars => UNCHANGED db
  BY DEF ChainStep, Mine, Drop, OthersExecute, Confirm, Reorg, OutsideTransaction, vars
<1> QED
  BY <1>2, <1>4, <1>5, <1>6, <1>7, <1>8, <1>9, CommitReserves DEF Next

\* The reservation is the sum of all that was signed and stays within the run's budget,
\* for any number of jobs and however the processes that share the run are configured.
THEOREM RelayerWithinBudget == Spec => []BudgetHeld
<1>1. RelayerInv /\ ReservedIsSigned => BudgetHeld
  BY DEF RelayerInv, JournalInv, ReservedIsSigned, CostOf, BudgetHeld
<1>2. RelayerInv /\ RelayerInv' /\ ReservedIsSigned /\ [Next]_vars => ReservedIsSigned'
  BY StepReserved
<1> QED
  BY <1>1, <1>2, InitReserved, RelayerInductive, PTL DEF Spec

-----------------------------------------------------------------------------
(* The journal as history.                                                 *)

\* What the journal may not do in a step.
LEMMA JournalAdvances ==
  ASSUME RelayerInv, Next
  PROVE  /\ \A j \in Jobs :
              /\ job[j].state \in Terminal => job'[j] = job[j]
              /\ job[j].state \in Active =>
                   /\ job'[j].state \in Active \cup Terminal
                   /\ job'[j].nonce = job[j].nonce /\ job'[j].cost = job[j].cost
         /\ reserved <= reserved'
         /\ budget # 0 => budget' = budget
<1>1. job \in [Jobs -> JobType] /\ budget \in Nat /\ reserved \in Nat
  BY DEF RelayerInv, Types, TypeOK
<1>2. CASE UNCHANGED db
  BY <1>1, <1>2 DEF db, Active, Terminal
<1>3. ASSUME NEW j \in Jobs, j \in ActiveJobs,
             NEW state \in Active \cup Terminal, job' = [job EXCEPT ![j].state = state],
             UNCHANGED <<budget, reserved>>
      PROVE  /\ \A k \in Jobs :
                  /\ job[k].state \in Terminal => job'[k] = job[k]
                  /\ job[k].state \in Active =>
                       /\ job'[k].state \in Active \cup Terminal
                       /\ job'[k].nonce = job[k].nonce /\ job'[k].cost = job[k].cost
             /\ reserved <= reserved' /\ budget' = budget
  <2>1. job[j] \in JobType /\ job[j].state \notin Terminal
    BY <1>1, <1>3 DEF ActiveJobs, Active, Terminal
  <2>2. /\ \A k \in Jobs \ {j} : job'[k] = job[k]
        /\ job'[j].state = state /\ job'[j].nonce = job[j].nonce /\ job'[j].cost = job[j].cost
    BY <1>1, <1>3, <2>1 DEF JobType
  <2> QED
    BY <1>1, <1>3, <2>1, <2>2
<1>4. ASSUME NEW w \in Workers, NEW j \in Jobs, Settle(w, j)
      PROVE  j \in ActiveJobs /\ UNCHANGED <<budget, reserved>>
             /\ \E state \in Active \cup Terminal : job' = [job EXCEPT ![j].state = state]
  BY <1>4 DEF Settle, FirstActive, Terminal
<1>5. ASSUME NEW w \in Workers, Record(w)
      PROVE  /\ current[w] \in ActiveJobs /\ UNCHANGED <<budget, reserved>>
             /\ \E state \in Active \cup Terminal : job' = [job EXCEPT ![current[w]].state = state]
  BY <1>5, OwnHand DEF Record, At, Sending, Active
<1>6. ASSUME NEW w \in Workers, Discover(w)
      PROVE  /\ \A k \in Jobs : job[k].state \in Active \cup Terminal => job'[k] = job[k]
             /\ UNCHANGED <<budget, reserved>>
  BY <1>1, <1>6 DEF Discover, Active, Terminal
<1>7. ASSUME NEW w \in Workers, Commit(w)
      PROVE  /\ \A k \in Jobs : job[k].state \in Active \cup Terminal => job'[k] = job[k]
             /\ reserved <= reserved' /\ (budget # 0 => budget' = budget)
  <2>1. session[w] /\ pc[w] = "prepared" /\ draft[w].cost \in Nat
    BY <1>7 DEF Commit, At, RelayerInv, Types, DraftType
  <2>2. job[current[w]].state = "QUEUED"
    BY <2>1, OwnHand
  <2> QED
    BY <1>1, <1>7, <2>1, <2>2 DEF Commit, Active, Terminal, ReservedAfter, RunBudget
<1>8. CASE ChainStep
  BY <1>2, <1>8 DEF ChainStep, Mine, Drop, OthersExecute, Confirm, Reorg, OutsideTransaction
<1>9. ASSUME NEW w \in Workers, WorkerStep(w)
      PROVE  UNCHANGED db \/ Discover(w) \/ Commit(w) \/ Record(w) \/ \E j \in Jobs : Settle(w, j)
  BY <1>9 DEF WorkerStep, Lock, NothingToDo, Ping, SendOk, SendRefused, Abandon, Resend, Wait, Skip, Prepare
<1>10. ASSUME NEW w \in Workers, WorkerFault(w) PROVE UNCHANGED db
  BY <1>10 DEF WorkerFault, SendLost, Crash, LoseSession
<1>11. CASE \E w \in Workers : Discover(w) \/ Commit(w)
  <2>1. /\ \A k \in Jobs : job[k].state \in Active \cup Terminal => job'[k] = job[k]
        /\ reserved <= reserved' /\ (budget # 0 => budget' = budget)
    BY <1>1, <1>6, <1>7, <1>11
  <2> QED
    BY <2>1
<1>12. CASE \E w \in Workers : Record(w) \/ \E j \in Jobs : Settle(w, j)
  <2>1. PICK j \in ActiveJobs, state \in Active \cup Terminal :
          job' = [job EXCEPT ![j].state = state] /\ UNCHANGED <<budget, reserved>>
    BY <1>4, <1>5, <1>12
  <2>2. j \in Jobs
    BY DEF ActiveJobs
  <2> QED
    BY <1>3, <2>1, <2>2
<1>13. CASE \E w \in Workers : WorkerStep(w) \/ WorkerFault(w)
  <2>1. \/ UNCHANGED db
        \/ \E w \in Workers : Discover(w) \/ Commit(w)
        \/ \E w \in Workers : Record(w) \/ \E j \in Jobs : Settle(w, j)
    BY <1>9, <1>10, <1>13
  <2> QED
    BY <1>2, <1>11, <1>12, <2>1
<1> QED
  BY <1>8, <1>13 DEF Next

\* The journal is append-only: what a terminal row says, what a signed row was signed
\* with, and what the run's row grants and reserves, never go back.
THEOREM RelayerJournalFinal == Spec => JournalIsFinal
<1>1. RelayerInv /\ [Next]_vars =>
        [/\ \A j \in Jobs :
              /\ job[j].state \in Terminal => job'[j] = job[j]
              /\ job[j].state \in Active =>
                   /\ job'[j].state \in Active \cup Terminal
                   /\ job'[j].nonce = job[j].nonce /\ job'[j].cost = job[j].cost
         /\ reserved <= reserved'
         /\ budget # 0 => budget' = budget]_vars
  BY JournalAdvances
<1> QED
  BY <1>1, RelayerInductive, PTL DEF Spec, JournalIsFinal

-----------------------------------------------------------------------------
(* The journal in memory                                                   *)

\* The job remembers the end of its latest lease, which is the latest of all.
LeaseIsLatest ==
  \A g \in grants :
    /\ g.from < g.until /\ g.from <= now
    /\ jobs[g.intent].state \in {"LEASED", "BROADCAST"}
    /\ g.until <= jobs[g.intent].leaseUntil

\* Only a broadcast job has a transaction on record.
RecordedIsBroadcast == \A i \in Intents : jobs[i].tx # NoWorker => jobs[i].state = "BROADCAST"

LeaseInv == JournalTypeOK /\ LeaseIsLatest /\ RecordedIsBroadcast /\ LeasesDisjoint

\* No intent and no lease at the start.
LEMMA LeaseInvInit == JournalInit => LeaseInv
  BY JournalAssumption
  DEF JournalInit, LeaseInv, JournalTypeOK, LeaseIsLatest, RecordedIsBroadcast, LeasesDisjoint, Absent, LeaseRowType, States

\* Every call of the journal keeps the invariant.
LEMMA LeaseInvStep == LeaseInv /\ [JournalNext]_journalVars => LeaseInv'
<1> SUFFICES ASSUME LeaseInv, [JournalNext]_journalVars PROVE LeaseInv'
  OBVIOUS
<1> USE JournalAssumption
<1> USE DEF LeaseInv
<1>1. CASE Tick
  BY <1>1 DEF Tick, JournalTypeOK, LeaseIsLatest, RecordedIsBroadcast, LeasesDisjoint, GrantType
<1>2. ASSUME NEW i \in Intents, Enqueue(i) PROVE LeaseInv'
  <2> USE <1>2 DEF Enqueue
  <2>1. /\ \A j \in Intents \ {i} : jobs'[j] = jobs[j]
        /\ jobs'[i].state = "QUEUED" /\ jobs'[i].tx = jobs[i].tx
        /\ jobs' \in [Intents -> LeaseRowType]
    BY DEF JournalTypeOK, LeaseRowType, States
  <2>2. queue' \in Seq(Intents)
    BY DEF JournalTypeOK
  <2>3. JournalTypeOK'
    BY <2>1, <2>2 DEF JournalTypeOK
  <2>4. \A g \in grants : g.intent \in Intents /\ g.intent # i
    BY DEF LeaseIsLatest, JournalTypeOK, GrantType
  <2>5. LeaseIsLatest'
    BY <2>1, <2>4 DEF LeaseIsLatest
  <2>6. RecordedIsBroadcast'
    BY <2>1 DEF RecordedIsBroadcast
  <2> QED
    BY <2>3, <2>5, <2>6 DEF LeasesDisjoint
<1>3. ASSUME NEW w \in WorkerIds, NEW lease \in Leases, Claim(w, lease) PROVE LeaseInv'
  <2> PICK k \in DOMAIN queue :
        LET i == queue[k]
            grant == [intent |-> i, worker |-> w, from |-> now, until |-> now + lease] IN
        /\ Claimable(i)
        /\ jobs' = [jobs EXCEPT ![i] = Leased(i, grant)]
        /\ holding' = [holding EXCEPT ![w] = {[grant |-> grant, sent |-> FALSE]}]
        /\ grants' = grants \cup {grant}
        /\ UNCHANGED <<now, queue>>
    BY <1>3 DEF Claim
  <2> DEFINE i == queue[k]
             grant == [intent |-> i, worker |-> w, from |-> now, until |-> now + lease]
  <2>1. i \in Intents /\ now \in Nat /\ lease \in Nat \ {0}
    BY DEF JournalTypeOK
  <2>2. grant \in GrantType
    BY <2>1 DEF GrantType
  <2>3. /\ jobs' \in [Intents -> LeaseRowType]
        /\ jobs'[i].state = "LEASED" /\ jobs'[i].leaseUntil = now + lease /\ jobs'[i].tx = jobs[i].tx
        /\ \A j \in Intents \ {i} : jobs'[j] = jobs[j]
    <3>1. jobs[i].tx \in WorkerIds \cup {NoWorker}
      BY <2>1 DEF JournalTypeOK, LeaseRowType
    <3>2. Leased(i, grant) \in LeaseRowType
      BY <2>1, <3>1 DEF Leased, LeaseRowType, States
    <3> QED
      BY <2>1, <3>2 DEF Leased, JournalTypeOK
  <2>4. JournalTypeOK'
    BY <2>2, <2>3 DEF JournalTypeOK, HandType
  <2>5. \A g \in grants : g.intent = i => g.until <= now
    <3> SUFFICES ASSUME NEW g \in grants, g.intent = i PROVE g.until <= now
      OBVIOUS
    <3>1. g.until <= jobs[i].leaseUntil /\ jobs[i].state \in {"LEASED", "BROADCAST"}
      BY DEF LeaseIsLatest
    <3>2. jobs[i].leaseUntil <= now
      BY <3>1 DEF Claimable
    <3>3. g.until \in Nat /\ jobs[i].leaseUntil \in Nat
      BY <2>1 DEF JournalTypeOK, GrantType, LeaseRowType
    <3> QED
      BY <2>1, <3>1, <3>2, <3>3
  <2>6. LeaseIsLatest'
    <3> SUFFICES ASSUME NEW g \in grants'
                 PROVE /\ g.from < g.until /\ g.from <= now
                       /\ jobs'[g.intent].state \in {"LEASED", "BROADCAST"}
                       /\ g.until <= jobs'[g.intent].leaseUntil
      BY DEF LeaseIsLatest
    <3>1. CASE g = grant
      BY <2>1, <2>3, <3>1
    <3>2. CASE g \in grants
      <4>1. g.intent \in Intents /\ g.from \in Nat /\ g.until \in Nat
        BY <3>2 DEF JournalTypeOK, GrantType
      <4> QED
        BY <2>1, <2>3, <2>5, <3>2, <4>1 DEF LeaseIsLatest
    <3> QED
      BY <3>1, <3>2
  <2>7. RecordedIsBroadcast'
    BY <2>1, <2>3 DEF RecordedIsBroadcast, Claimable
  <2>8. LeasesDisjoint'
    BY <2>1, <2>5 DEF LeasesDisjoint
  <2> QED
    BY <2>4, <2>6, <2>7, <2>8
<1>4. ASSUME NEW w \in WorkerIds, Send(w) PROVE LeaseInv'
  <2> PICK h \in holding[w] :
        /\ holding' = [holding EXCEPT ![w] = {[h EXCEPT !.sent = TRUE]}]
        /\ UNCHANGED <<now, queue, jobs, grants>>
    BY <1>4 DEF Send
  <2>1. h \in HandType /\ now \in Nat
    BY DEF JournalTypeOK
  <2>2. [h EXCEPT !.sent = TRUE] \in HandType /\ h.grant \in GrantType
    BY <2>1 DEF HandType
  <2>3. holding' \in [WorkerIds -> SUBSET HandType]
    BY <2>2 DEF JournalTypeOK
  <2>4. JournalTypeOK'
    BY <2>1, <2>2, <2>3 DEF JournalTypeOK
  <2> QED
    BY <2>4 DEF LeaseIsLatest, RecordedIsBroadcast, LeasesDisjoint
<1>5. ASSUME NEW w \in WorkerIds, MarkBroadcast(w) PROVE LeaseInv'
  <2> PICK h \in holding[w] :
        /\ LET i == h.grant.intent IN
           jobs' = IF jobs[i].state = "LEASED" THEN [jobs EXCEPT ![i] = Recorded(i, w)] ELSE jobs
        /\ holding' = [holding EXCEPT ![w] = {}]
        /\ UNCHANGED <<now, queue, grants>>
    BY <1>5 DEF MarkBroadcast
  <2> DEFINE i == h.grant.intent
  <2>1. h \in HandType /\ i \in Intents
    BY DEF JournalTypeOK, HandType, GrantType
  <2>2. /\ jobs' \in [Intents -> LeaseRowType]
        /\ \A j \in Intents :
             \/ jobs'[j] = jobs[j]
             \/ /\ jobs[j].state = "LEASED" /\ jobs'[j].state = "BROADCAST"
                /\ jobs'[j].leaseUntil = jobs[j].leaseUntil
    <3> HIDE DEF i
    <3>1. CASE jobs[i].state = "LEASED"
      <4>1. jobs' = [jobs EXCEPT ![i] = Recorded(i, w)]
        BY <3>1 DEF i
      <4>2. jobs[i] \in LeaseRowType
        BY <2>1 DEF JournalTypeOK
      <4>3. Recorded(i, w) \in LeaseRowType
        BY <4>2 DEF Recorded, LeaseRowType, States
      <4> QED
        BY <2>1, <3>1, <4>1, <4>3 DEF JournalTypeOK, Recorded
    <3>2. CASE jobs[i].state # "LEASED"
      <4>1. jobs' = jobs
        BY <3>2 DEF i
      <4> QED
        BY <4>1 DEF JournalTypeOK
    <3> QED
      BY <3>1, <3>2
  <2>3. JournalTypeOK'
    BY <2>2 DEF JournalTypeOK
  <2>4. \A g \in grants : g.intent \in Intents
    BY DEF JournalTypeOK, GrantType
  <2>5. LeaseIsLatest'
    BY <2>2, <2>4 DEF LeaseIsLatest
  <2>6. RecordedIsBroadcast'
    BY <2>2 DEF RecordedIsBroadcast
  <2>7. LeasesDisjoint'
    BY DEF LeasesDisjoint
  <2> QED
    BY <2>3, <2>5, <2>6, <2>7
<1>6. ASSUME NEW w \in WorkerIds, Fail(w) PROVE LeaseInv'
  BY <1>6 DEF Fail, JournalTypeOK, LeaseIsLatest, RecordedIsBroadcast, LeasesDisjoint
<1>7. CASE UNCHANGED journalVars
  BY <1>7 DEF journalVars, JournalTypeOK, LeaseIsLatest, RecordedIsBroadcast, LeasesDisjoint
<1> QED
  BY <1>1, <1>2, <1>3, <1>4, <1>5, <1>6, <1>7 DEF JournalNext

\* The invariant of the lease queue holds in every state.
LEMMA LeaseInvAlways == JournalSpec => []LeaseInv
  BY LeaseInvInit, LeaseInvStep, PTL DEF JournalSpec

\* No two leases of one intent overlap, whatever lengths were asked for.
THEOREM JournalLeases == JournalSpec => []LeasesDisjoint
<1>1. LeaseInv => LeasesDisjoint
  BY DEF LeaseInv
<1> QED
  BY <1>1, LeaseInvAlways, PTL

\* A recorded broadcast is neither leased again nor replaced by a later report.
THEOREM JournalRecords == JournalSpec => RecordedIsFinal
<1>1. LeaseInv /\ [JournalNext]_journalVars =>
        [\A i \in Intents : Recovery(i) = "RECONCILE_EXISTING_TX" => jobs'[i] = jobs[i]]_journalVars
  <2> SUFFICES ASSUME LeaseInv, JournalNext, NEW i \in Intents, Recovery(i) = "RECONCILE_EXISTING_TX"
               PROVE jobs'[i] = jobs[i]
    BY DEF journalVars
  <2> USE DEF LeaseInv
  <2>1. jobs[i].tx # NoWorker
    BY DEF Recovery
  <2>2. jobs[i].state = "BROADCAST"
    BY <2>1 DEF RecordedIsBroadcast
  <2>3. CASE Tick
    BY <2>3 DEF Tick
  <2>4. ASSUME NEW j \in Intents, Enqueue(j) PROVE jobs'[i] = jobs[i]
    BY <2>2, <2>4 DEF Enqueue, JournalTypeOK
  <2>5. ASSUME NEW w \in WorkerIds, NEW lease \in Leases, Claim(w, lease) PROVE jobs'[i] = jobs[i]
    BY <2>2, <2>5 DEF Claim, Claimable, JournalTypeOK
  <2>6. ASSUME NEW w \in WorkerIds, Send(w) \/ Fail(w) PROVE jobs'[i] = jobs[i]
    BY <2>6 DEF Send, Fail
  <2>7. ASSUME NEW w \in WorkerIds, MarkBroadcast(w) PROVE jobs'[i] = jobs[i]
    BY <2>2, <2>7 DEF MarkBroadcast, JournalTypeOK
  <2> QED
    BY <2>3, <2>4, <2>5, <2>6, <2>7 DEF JournalNext
<1> QED
  BY <1>1, LeaseInvAlways, PTL DEF JournalSpec, RecordedIsFinal
==============================================================================
