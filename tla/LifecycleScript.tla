-------------------------- MODULE LifecycleScript --------------------------
(***************************************************************************)
(* The operator's script (shannon-lifecycle.mjs) that takes one enrollment *)
(* from its vault to the withdrawal in three commands, the evidence file   *)
(* it keeps, and the verifier (verify-lifecycle.mjs) that rechecks the     *)
(* file.  The script may stop anywhere: a crash, a failed assertion, a     *)
(* timeout.  It is started again by hand, and others may execute or        *)
(* recover the enrollment, or send the vault money, as well.               *)
(***************************************************************************)
EXTENDS Naturals, Sequences, FiniteSets, SequencesExt

CONSTANTS
  MaxSends,        \* bound: transactions sent by the script
  MaxPending,      \* bound: those that wait to be mined
  MaxDepth,        \* bound: blocks that are not yet final
  MaxDisturbances, \* bound: replaced blocks and transfers to the vault, together
  GiftsFrom        \* bound: transfers come once a transaction of this kind has succeeded

ASSUME LifecycleAssumption ==
  MaxSends \in Nat /\ MaxPending \in Nat /\ MaxDepth \in Nat \ {0} /\ MaxDisturbances \in Nat

Route(mode) ==
  CASE mode = "run" -> <<"create-vault", "deposit", "enroll">>
    [] mode = "signal" -> <<"anchor-signal", "native-execute", "revoke", "withdraw-unused">>
    [] OTHER -> <<"recover", "withdraw">>
Labels == UNION {ToSet(Route(mode)) : mode \in {"run", "signal", "recover"}}

Withdrawals == {"withdraw-unused", "withdraw"}

VARIABLES
  file,            \* the evidence file: phase ("none": no file) and transactions
  proc,            \* the running script: its command, step and stage, the transaction it waits
                   \* for, and the amount it withdraws
  mempool,         \* sent transactions in the order of their nonces
  ledger,          \* results and the vault's balance, one per block; id 0: somebody else's
  final,           \* blocks with two confirmations, which no reorganisation reaches
  resolved,        \* the market has an outcome
  reported,        \* history: the first complete report, and whether the file held all that was sent
  sends, reorgs

chainVars == <<mempool, ledger, final, resolved, reported, sends, reorgs>>
scriptVars == <<file, proc, chainVars>>

Off == [mode |-> "off", step |-> 0, stage |-> "ready", id |-> 0, amount |-> 0]
Phases == {"none", "DEPLOYING", "ENROLLED_WAITING_SIGNAL", "SIGNAL_ANCHORED", "AWAITING_SETTLEMENT",
           "RECOVERED_AND_WITHDRAWN"}
EntryType == [id : Nat, label : Labels, status : {"SUBMITTED", "MINED_SUCCESS", "REVERTED"}, block : Nat]

ScriptInit ==
  /\ file = [phase |-> "none", transactions |-> <<>>]
  /\ proc = Off
  /\ mempool = <<>> /\ ledger = <<>> /\ final = 0 /\ resolved = FALSE
  /\ reported = "nothing" /\ sends = 0 /\ reorgs = 0

-----------------------------------------------------------------------------
(* The contracts and the chain, as the script sees them                    *)

Has(label) == \E i \in DOMAIN ledger : ledger[i].label = label /\ ledger[i].ok
Filled == \E i \in DOMAIN ledger : ledger[i].label = "native-execute" /\ ledger[i].ok /\ ledger[i].fill
Position == Filled /\ ~Has("recover")
Cash == IF ledger = <<>> THEN 0 ELSE Last(ledger).cash

\* Whether a transaction can succeed now; every signal, execution, revocation and
\* recovery happens once, and a withdrawal of nothing is one.
Effective(label, amount) ==
  CASE label = "create-vault" -> ~Has(label)
    [] label \in {"deposit", "transfer"} -> Has("create-vault")
    [] label = "enroll" -> Has("create-vault") /\ ~Has(label)
    [] label = "anchor-signal" -> Has("enroll") /\ ~Has(label) /\ ~resolved
    [] label = "native-execute" ->
         Has("anchor-signal") /\ ~Has(label) /\ ~Has("revoke") /\ ~resolved /\ Cash > 0
    [] label = "revoke" -> Has("enroll") /\ ~Has(label)
    [] label = "recover" -> Position /\ resolved
    [] OTHER -> amount <= Cash

\* The vault's balance after a success: two units are deposited, a fill costs one, and a
\* recovery pays one or nothing.
CashAfter(label, fill, amount) ==
  CASE label = "deposit" -> {Cash + 2}
    [] label = "transfer" -> {Cash + 1}
    [] label = "native-execute" -> {IF fill THEN Cash - 1 ELSE Cash}
    [] label = "recover" -> {Cash, Cash + 1}
    [] label \in Withdrawals -> {Cash - amount}
    [] OTHER -> {Cash}

\* What a block with this transaction may hold.
Success(t) ==
  UNION {[id : {t.id}, label : {t.label}, amount : {t.amount}, ok : {TRUE}, fill : {fill},
          cash : CashAfter(t.label, fill, t.amount)] :
           fill \in IF t.label = "native-execute" THEN BOOLEAN ELSE {FALSE}}
Failure(t) == [id |-> t.id, label |-> t.label, amount |-> t.amount, ok |-> FALSE, fill |-> FALSE, cash |-> Cash]
Result(t) == IF Effective(t.label, t.amount) THEN Success(t) ELSE {Failure(t)}

Mine ==
  /\ mempool # <<>> /\ Len(ledger) < final + MaxDepth
  /\ \E r \in Result(Head(mempool)) : ledger' = Append(ledger, r)
  /\ mempool' = Tail(mempool)
  /\ UNCHANGED <<file, proc, final, resolved, reported, sends, reorgs>>

Disturbances == reorgs + Cardinality({i \in DOMAIN ledger : ledger[i].label = "transfer"})
Others(label) ==
  /\ Effective(label, 0) /\ Len(ledger) < final + MaxDepth
  /\ label = "transfer" => Has(GiftsFrom) /\ Disturbances < MaxDisturbances
  /\ \E r \in Success([id |-> 0, label |-> label, amount |-> 0]) : ledger' = Append(ledger, r)
  /\ UNCHANGED <<file, proc, mempool, final, resolved, reported, sends, reorgs>>

Confirm ==
  /\ final < Len(ledger) /\ final' = final + 1
  /\ UNCHANGED <<file, proc, mempool, ledger, resolved, reported, sends, reorgs>>

\* The last block is replaced by one without its transaction, which waits again.
Reorg ==
  /\ Disturbances < MaxDisturbances /\ final < Len(ledger)
  /\ LET last == Last(ledger) IN
       mempool' = IF last.id = 0 THEN mempool
                  ELSE <<[id |-> last.id, label |-> last.label, amount |-> last.amount]>> \o mempool
  /\ ledger' = Front(ledger)
  /\ reorgs' = reorgs + 1
  /\ UNCHANGED <<file, proc, final, resolved, reported, sends>>

Resolve ==
  ~resolved /\ resolved' = TRUE /\ UNCHANGED <<file, proc, mempool, ledger, final, reported, sends, reorgs>>

Receipt(id) == {i \in DOMAIN ledger : ledger[i].id = id}

-----------------------------------------------------------------------------
(* The script                                                              *)

Entries(label) == {i \in DOMAIN file.transactions : file.transactions[i].label = label}
Submitted == {i \in DOMAIN file.transactions : file.transactions[i].status = "SUBMITTED"}
StepLabel == Route(proc.mode)[proc.step]

Start(mode) ==
  /\ proc = Off /\ (mode = "run" <=> file.phase = "none")
  /\ file' = IF mode = "run" THEN [file EXCEPT !.phase = "DEPLOYING"] ELSE file
  /\ proc' = [Off EXCEPT !.mode = mode, !.step = 1, !.stage = IF mode = "run" THEN "ready" ELSE "reconcile"]
  /\ UNCHANGED chainVars

\* A crash, a timeout, a failed estimate or assertion.
Stop == proc # Off /\ proc' = Off /\ UNCHANGED <<file, chainVars>>

\* The entry, with what the receipt in this block says of it.
Settled(entry, block) ==
  [entry EXCEPT !.status = IF ledger[block].ok THEN "MINED_SUCCESS" ELSE "REVERTED", !.block = block]

\* Before anything else, every entry of an earlier command gets its receipt; one without
\* a receipt stops the script.
Reconcile ==
  /\ proc.stage = "reconcile"
  /\ \E i \in Submitted :
       /\ \A j \in Submitted : i <= j
       /\ \E block \in Receipt(file.transactions[i].id) :
            file' = [file EXCEPT !.transactions[i] = Settled(@, block)]
  /\ UNCHANGED <<proc, chainVars>>

Reconciled ==
  /\ proc.stage = "reconcile" /\ Submitted = {}
  /\ \/ proc.mode = "signal" /\ file.phase \in {"ENROLLED_WAITING_SIGNAL", "SIGNAL_ANCHORED"}
     \/ proc.mode = "recover" /\ resolved /\ Has("create-vault")
  /\ proc' = [proc EXCEPT !.stage = "ready"]
  /\ UNCHANGED <<file, chainVars>>

\* The imported rule on resubmission: not while an entry of the label is pending or
\* has succeeded.
MaySubmit(label) == \A i \in Entries(label) : file.transactions[i].status = "REVERTED"

Wanted ==
  CASE proc.mode = "run" -> TRUE
    [] proc.mode = "signal" -> MaySubmit(StepLabel)
    [] OTHER -> IF StepLabel = "recover" THEN Position ELSE Cash > 0

\* A withdrawal takes the balance read here, which may have changed when it is sent or mined.
ReadBalance ==
  /\ proc.stage = "ready" /\ proc # Off /\ StepLabel \in Withdrawals /\ Wanted
  /\ proc' = [proc EXCEPT !.stage = "read", !.amount = Cash]
  /\ UNCHANGED <<file, chainVars>>

\* The estimate of its gas succeeds, and the transaction is sent.
Send ==
  /\ proc # Off /\ sends < MaxSends /\ Len(mempool) < MaxPending
  /\ \/ proc.stage = "ready" /\ StepLabel \notin Withdrawals /\ Wanted
     \/ proc.stage = "read"
  /\ Effective(StepLabel, proc.amount)
  /\ sends' = sends + 1
  /\ mempool' = Append(mempool, [id |-> sends + 1, label |-> StepLabel, amount |-> proc.amount])
  /\ proc' = [proc EXCEPT !.stage = "sent", !.id = sends + 1]
  /\ UNCHANGED <<file, ledger, final, resolved, reported, reorgs>>

Save ==
  /\ proc.stage = "sent"
  /\ file' = [file EXCEPT !.transactions =
       Append(@, [id |-> proc.id, label |-> StepLabel, status |-> "SUBMITTED", block |-> 0])]
  /\ proc' = [proc EXCEPT !.stage = "saved"]
  /\ UNCHANGED chainVars

\* Faulty variant of Mined: a reverted transaction does not stop the script.
MinedAnyhow ==
  /\ proc.stage = "saved"
  /\ \E block \in Receipt(proc.id) :
       file' = [file EXCEPT !.transactions[Len(file.transactions)] = Settled(@, block)]
  /\ proc' = [proc EXCEPT !.stage = "mined"]
  /\ UNCHANGED chainVars

\* One confirmation is enough for the script; a reverted transaction stops it.
Mined ==
  /\ proc.stage = "saved"
  /\ \E block \in Receipt(proc.id) :
       /\ file' = [file EXCEPT !.transactions[Len(file.transactions)] = Settled(@, block)]
       /\ proc' = IF ledger[block].ok THEN [proc EXCEPT !.stage = "mined"] ELSE Off
  /\ UNCHANGED chainVars

\* The phase written after a step, and the assertion made there.
PhaseAfter(label) ==
  CASE label = "enroll" -> "ENROLLED_WAITING_SIGNAL"
    [] label = "anchor-signal" -> "SIGNAL_ANCHORED"
    [] label = "withdraw-unused" -> "AWAITING_SETTLEMENT"
    [] label = "withdraw" -> "RECOVERED_AND_WITHDRAWN"
    [] OTHER -> file.phase
AssertedAfter(label) ==
  CASE label = "native-execute" -> Filled
    [] label = "recover" -> ~Position
    [] label = "withdraw" -> Cash = 0
    [] OTHER -> TRUE

NextStep ==
  IF proc.step = Len(Route(proc.mode)) THEN Off
  ELSE [Off EXCEPT !.mode = proc.mode, !.step = proc.step + 1]

\* A step is over when its transaction is mined, or when none was wanted.
Proceed ==
  /\ proc # Off /\ (proc.stage = "mined" \/ (proc.stage = "ready" /\ ~Wanted))
  /\ AssertedAfter(StepLabel)
  /\ file' = [file EXCEPT !.phase = PhaseAfter(StepLabel)]
  /\ proc' = NextStep
  /\ UNCHANGED chainVars

-----------------------------------------------------------------------------
(* The verifier                                                            *)

\* Faulty variant of Verified: the depth of a receipt does not matter.
VerifiedAtHead(entry) ==
  \E i \in Receipt(entry.id) : ledger[i].ok /\ entry.block = i

Verified(entry) ==
  \E i \in Receipt(entry.id) : ledger[i].ok /\ entry.block = i /\ i <= final

\* What the report calls complete.  Position, cash and revocation are read at the head.
Complete ==
  /\ file.phase = "RECOVERED_AND_WITHDRAWN"
  /\ \A i \in DOMAIN file.transactions : Verified(file.transactions[i])
  /\ Has("native-execute") /\ ~Position /\ Cash = 0 /\ Has("revoke") /\ Has("recover")
  /\ Entries("recover") # {} /\ Entries("withdraw") \cup Entries("withdraw-unused") # {}

OnRecord(id) == \E i \in DOMAIN file.transactions : file.transactions[i].id = id

Report ==
  /\ reported = "nothing" /\ Complete
  /\ reported' = IF \A id \in 1..sends : OnRecord(id) THEN "accounted" ELSE "complete"
  /\ UNCHANGED <<file, proc, mempool, ledger, final, resolved, sends, reorgs>>

-----------------------------------------------------------------------------

ScriptNext ==
  \/ \E mode \in {"run", "signal", "recover"} : Start(mode)
  \/ Stop \/ Reconcile \/ Reconciled \/ ReadBalance \/ Send \/ Save \/ Mined \/ Proceed
  \/ Mine \/ Confirm \/ Reorg \/ Resolve \/ Report
  \/ \E label \in {"native-execute", "recover", "transfer"} : Others(label)

ScriptSpec == ScriptInit /\ [][ScriptNext]_scriptVars

-----------------------------------------------------------------------------
(* Properties                                                              *)

ScriptTypeOK ==
  /\ file.phase \in Phases /\ file.transactions \in Seq(EntryType)
  /\ proc = Off \/ proc.step \in DOMAIN Route(proc.mode)
  /\ final <= Len(ledger)
  /\ reported \in {"nothing", "complete", "accounted"}

\* The vault was empty after block i, and what came in since are transfers from others and
\* deposits that were never recorded.
EmptiedAt(i) ==
  /\ ledger[i].cash = 0
  /\ \A j \in DOMAIN ledger : j > i /\ ledger[j].cash > ledger[j - 1].cash =>
       ledger[j].label = "transfer" \/ (ledger[j].label = "deposit" /\ ~OnRecord(ledger[j].id))

\* What a phase claims has happened on the chain.
PhaseIsTrue ==
  LET rank == [p \in Phases |->
        CASE p = "AWAITING_SETTLEMENT" -> 3 [] p = "SIGNAL_ANCHORED" -> 2
          [] p = "ENROLLED_WAITING_SIGNAL" -> 1 [] OTHER -> 0][file.phase] IN
  /\ rank >= 1 => Has("enroll")
  /\ rank >= 2 => Has("anchor-signal")
  /\ rank >= 3 => Filled /\ Has("revoke") /\ Has("withdraw-unused")
  /\ file.phase = "RECOVERED_AND_WITHDRAWN" => ~Position /\ \E i \in DOMAIN ledger : EmptiedAt(i)

\* Of every kind of transaction the file holds at most one that is pending or has succeeded;
\* only the last withdrawal is made again when the vault has got money since.
OneLivePerLabel ==
  \A label \in Labels \ {"withdraw"} :
    Cardinality({i \in Entries(label) : file.transactions[i].status # "REVERTED"}) <= 1

\* The evidence file tells the truth through any number of interrupted commands, unrecorded
\* transactions and interventions of others: its phase has happened, and what it recorded was
\* never submitted a second time.  A block that is replaced takes either back, because the
\* script waits for one confirmation only.
FileIsTrue == ScriptTypeOK /\ (reorgs = 0 => PhaseIsTrue /\ OneLivePerLabel)

\* What a complete report says of the trade and its recovery cannot be taken back, though the
\* report reads them at the head of the chain: both are in final blocks ever after.  The
\* revocation and the empty vault are as safe when the file held everything that was sent;
\* otherwise they may rest on a transaction nobody recorded, which a reorganisation takes back.
CompleteIsFinal ==
  /\ reported # "nothing" =>
       \A label \in {"native-execute", "recover"} :
         \E i \in 1..final : ledger[i].label = label /\ ledger[i].ok
  /\ reported = "accounted" =>
       /\ \E i \in 1..final : ledger[i].label = "revoke" /\ ledger[i].ok
       /\ \E i \in 1..final : EmptiedAt(i)
=============================================================================
