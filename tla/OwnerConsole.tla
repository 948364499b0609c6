---------------------------- MODULE OwnerConsole ----------------------------
(***************************************************************************)
(* The owner's console in the browser (VaultConsole.jsx, vault-wallet.js): *)
(* the entry in localStorage that stands for an owner transaction of       *)
(* unknown outcome, the tabs that read it when they are opened, and the    *)
(* wallet and chain behind them.  A tab may be closed or reloaded at any   *)
(* moment; a wallet request it made stays open.  A transaction that the    *)
(* owner speeds up or cancels in the wallet is gone for the console.       *)
(***************************************************************************)
EXTENDS Naturals, FiniteSets

CONSTANTS Tabs, Txs

ASSUME ConsoleAssumption == Txs \cap {"none", "signing"} = {}

VARIABLES
  stored,          \* the pending entry: none, signing, or the hash of a transaction
  tabs,            \* per tab, where execute is, its own copy of the entry, and the wallet's question
  chain,           \* what has become of each transaction
  beyond           \* history: what the console does not guard against has happened

consoleVars == <<stored, tabs, chain, beyond>>

PendingEntries == {"none", "signing"} \cup Txs
TabPhases == {"closed", "idle", "checking", "signing", "sent", "waiting"}
TabType == [phase : TabPhases, pending : PendingEntries, tx : Txs \cup {"none"}, asked : BOOLEAN]

\* A transaction, and once it is mined the blocks on top of its own and whether it succeeded.
NotMined(state) == [state |-> state, blocks |-> 0, ok |-> FALSE]
TxType == [state : {"unsent", "pending", "mined", "gone"}, blocks : Nat, ok : BOOLEAN]

\* The outcome is open while a new head block may decide it.
Unresolved == {x \in Txs : chain[x].state = "pending" \/ (chain[x].state = "mined" /\ chain[x].blocks = 0)}
In(t, phase) == tabs[t].phase = phase

ConsoleInit ==
  /\ stored = "none"
  /\ tabs = [t \in Tabs |-> [phase |-> "closed", pending |-> "none", tx |-> "none", asked |-> FALSE]]
  /\ chain = [x \in Txs |-> NotMined("unsent")]
  /\ beyond = FALSE

\* The component is mounted: the one time a tab reads the storage.
Open(t) ==
  /\ In(t, "closed")
  /\ tabs' = [tabs EXCEPT ![t].phase = "idle", ![t].pending = stored]
  /\ beyond' = (beyond \/ \E u \in Tabs : ~In(u, "closed"))
  /\ UNCHANGED <<stored, chain>>

Close(t) ==
  /\ ~In(t, "closed")
  /\ tabs' = [tabs EXCEPT ![t].phase = "closed", ![t].pending = "none", ![t].tx = "none"]
  /\ UNCHANGED <<stored, chain, beyond>>

\* execute is past its first line, and sendOwnerAction checks owner, vault and cost.
Execute(t) ==
  /\ In(t, "idle") /\ tabs[t].pending = "none"
  /\ tabs' = [tabs EXCEPT ![t].phase = "checking"]
  /\ UNCHANGED <<stored, chain, beyond>>

CheckFails(t) ==
  /\ In(t, "checking")
  /\ tabs' = [tabs EXCEPT ![t].phase = "idle"]
  /\ UNCHANGED <<stored, chain, beyond>>

\* onSigning, then the request to the wallet.
AskToSign(t) ==
  /\ In(t, "checking")
  /\ stored' = "signing"
  /\ tabs' = [tabs EXCEPT ![t].phase = "signing", ![t].pending = "signing", ![t].asked = TRUE]
  /\ UNCHANGED <<chain, beyond>>

\* The owner declines: code 4001 or ACTION_REJECTED.
Reject(t) ==
  /\ In(t, "signing") /\ tabs[t].asked
  /\ stored' = "none"
  /\ tabs' = [tabs EXCEPT ![t].phase = "idle", ![t].pending = "none", ![t].asked = FALSE]
  /\ UNCHANGED <<chain, beyond>>

\* The owner declines, and no tab is there to hear of it.
RejectUnheard(t) ==
  /\ tabs[t].asked /\ ~In(t, "signing")
  /\ tabs' = [tabs EXCEPT ![t].asked = FALSE]
  /\ UNCHANGED <<stored, chain, beyond>>

\* The wallet sends, also for a tab that has gone.
WalletSends(t, x) ==
  /\ tabs[t].asked /\ chain[x].state = "unsent"
  /\ chain' = [chain EXCEPT ![x] = NotMined("pending")]
  /\ tabs' = [tabs EXCEPT ![t].asked = FALSE,
                          ![t].phase = IF In(t, "signing") THEN "sent" ELSE @,
                          ![t].tx = IF In(t, "signing") THEN x ELSE @]
  /\ UNCHANGED <<stored, beyond>>

\* onSubmitted: the wallet's answer has arrived.
OnSubmitted(t) ==
  /\ In(t, "sent")
  /\ stored' = tabs[t].tx
  /\ tabs' = [tabs EXCEPT ![t].phase = "waiting", ![t].pending = tabs[t].tx]
  /\ UNCHANGED <<chain, beyond>>

\* Faulty variant of Fail: every error clears the entry.
FailClears(t) ==
  /\ tabs[t].phase \in {"signing", "sent", "waiting"}
  /\ stored' = "none"
  /\ tabs' = [tabs EXCEPT ![t].phase = "idle", ![t].tx = "none", ![t].pending = "none"]
  /\ UNCHANGED <<chain, beyond>>

\* Any other error: the wallet's answer is lost, the wait of two minutes is over, the
\* transaction was replaced or has failed.  The entry stays.
Fail(t) ==
  /\ tabs[t].phase \in {"signing", "sent", "waiting"}
  /\ tabs' = [tabs EXCEPT ![t].phase = "idle", ![t].tx = "none"]
  /\ UNCHANGED <<stored, chain, beyond>>

\* tx.wait(2) counts the block of the receipt itself, so one block on top is enough for it.
WaitIsOver(x) == chain[x].state = "mined" /\ chain[x].blocks >= 1 /\ chain[x].ok

Succeed(t) ==
  /\ In(t, "waiting") /\ WaitIsOver(tabs[t].tx)
  /\ stored' = "none"
  /\ tabs' = [tabs EXCEPT ![t].phase = "idle", ![t].pending = "none", ![t].tx = "none"]
  /\ UNCHANGED <<chain, beyond>>

\* Faulty variant of ReceiptState: a receipt without confirmations is enough.
ReceiptStateMined(x) == chain[x].state = "mined"

\* receiptState has an answer, success or not: a canonical receipt with two blocks on top.
ReceiptState(x) == chain[x].state = "mined" /\ chain[x].blocks >= 2

ReconcilePending(t) ==
  /\ In(t, "idle") /\ tabs[t].pending \in Txs /\ ReceiptState(tabs[t].pending)
  /\ stored' = "none"
  /\ tabs' = [tabs EXCEPT ![t].pending = "none"]
  /\ UNCHANGED <<chain, beyond>>

Include(x, ok) ==
  /\ chain[x].state = "pending"
  /\ chain' = [chain EXCEPT ![x] = [state |-> "mined", blocks |-> 0, ok |-> ok]]
  /\ UNCHANGED <<stored, tabs, beyond>>

\* Another transaction takes its nonce.
Replace(x) ==
  /\ chain[x].state = "pending"
  /\ chain' = [chain EXCEPT ![x] = NotMined("gone")]
  /\ UNCHANGED <<stored, tabs, beyond>>

\* A block on top; nothing tells more than two of them apart.
NextBlock(x) ==
  /\ chain[x].state = "mined" /\ chain[x].blocks < 2
  /\ chain' = [chain EXCEPT ![x].blocks = @ + 1]
  /\ UNCHANGED <<stored, tabs, beyond>>

\* The block it was mined in is replaced, with those on top.
Reorganise(x) ==
  /\ chain[x].state = "mined"
  /\ chain' = [chain EXCEPT ![x] = NotMined("pending")]
  /\ beyond' = (beyond \/ chain[x].blocks > 0)
  /\ UNCHANGED <<stored, tabs>>

ConsoleNext ==
  \/ \E t \in Tabs :
       \/ Open(t) \/ Close(t) \/ Execute(t) \/ CheckFails(t) \/ AskToSign(t) \/ Reject(t) \/ RejectUnheard(t)
       \/ OnSubmitted(t) \/ Fail(t) \/ Succeed(t) \/ ReconcilePending(t)
       \/ \E x \in Txs : WalletSends(t, x)
  \/ \E x \in Txs : (\E ok \in BOOLEAN : Include(x, ok)) \/ Replace(x) \/ NextBlock(x) \/ Reorganise(x)

ConsoleSpec == ConsoleInit /\ [][ConsoleNext]_consoleVars

-----------------------------------------------------------------------------
(* Properties                                                              *)

ConsoleTypeOK ==
  /\ stored \in PendingEntries
  /\ tabs \in [Tabs -> TabType]
  /\ chain \in [Txs -> TxType]
  /\ beyond \in BOOLEAN

\* As long as the wallet may still send, or a new head block may still decide a transaction,
\* the entry is there: closing the tab, opening another, a lost answer or a timeout never
\* make the console forget it.  Two tabs open at once do, and so does a reorganisation
\* of more than the head block: execute forgets a transaction with one block on top.
UnknownIsRemembered ==
  /\ ConsoleTypeOK
  /\ ~beyond =>
       /\ \A t \in Tabs : tabs[t].asked => stored = "signing"
       /\ \A x \in Unresolved : stored \in {"signing", x}

\* Do not resubmit (VaultConsole.jsx:25): from one tab after the other there is never a
\* second transaction, or a second question to the wallet, while the outcome of the first
\* is open, unless a reorganisation takes more than the head block.
OneOutstanding ==
  ~beyond => Cardinality(Unresolved) + Cardinality({t \in Tabs : tabs[t].asked}) <= 1
=============================================================================
