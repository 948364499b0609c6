---------------------------- MODULE ChainIndexer ----------------------------
(***************************************************************************)
(* The chain indexer (apps/worker/src/main.js, indexer.js).  A scan is one *)
(* database transaction under an advisory lock; inside it the worker reads *)
(* the chain in several RPC calls, between which blocks are mined and the  *)
(* end of the chain may be replaced.  Any error, crash or competing worker *)
(* ends a scan without a trace; so one scan at a time is modelled, by      *)
(* whichever worker holds the lock, and a worker keeps nothing from one    *)
(* scan to the next but what it committed.                                 *)
(***************************************************************************)
EXTENDS Integers, Sequences, FiniteSets

CONSTANTS
  Txs,            \* transactions whose logs are of interest
  Vaults,
  Factory,        \* the configured addresses the scan starts from
  Emitter,        \* Emitter[t]: the address that emits transaction t's log
  Creates,        \* Creates[t]: the vault t's VaultCreated log announces, or NoVault
  NoVault,
  Confirmations,  \* INDEXER_CONFIRMATIONS
  BatchSize,      \* INDEXER_MAX_BLOCKS_PER_TICK
  MaxReorg,       \* deepest replacement of the chain's end
  MaxLag,         \* blocks the node that answers getBlock('latest') may be behind
  MaxHeight,      \* bound: blocks of the chain
  MaxHashes,      \* bound: blocks ever produced, on all forks
  MaxCrashes      \* bound: crashes and failed reads

ASSUME TxAssumption ==
  /\ Factory \notin Vaults /\ NoVault \notin Vaults
  /\ Emitter \in [Txs -> Vaults \cup {Factory}]
  /\ Creates \in [Txs -> Vaults \cup {NoVault}]
ASSUME DepthAssumption ==
  /\ Confirmations \in Nat /\ BatchSize \in Nat \ {0} /\ MaxReorg \in Nat /\ MaxLag \in Nat
  /\ MaxHeight \in Nat /\ MaxHashes \in Nat /\ MaxCrashes \in Nat

VARIABLES
  chain,      \* the canonical chain: hash and transactions of each block, from block 1
  hashes,     \* hashes handed out so far
  deep,       \* history: confirmed blocks have been replaced
  \* the database
  cursor,     \* last scanned block and its hash; block 0 before the first scan
  events,     \* per indexed transaction, the block and hash it was recorded with
  addresses,  \* vaults saved in indexer_addresses
  \* the running scan
  pc,
  head,       \* number and hash of the latest block, read first
  target,     \* last block of the range, its hash as read before the logs
  unread,     \* blocks of the range whose logs have not been read yet
  logs,       \* logs read so far: transaction, block and hash
  fresh,      \* vaults discovered in this scan
  crashes

db == <<cursor, events, addresses>>
scan == <<pc, head, target, unread, logs, fresh>>
blocks == <<chain, hashes, deep>>
vars == <<blocks, db, scan, crashes>>

NoBlock == [block |-> 0, hash |-> 0]
Height == Len(chain)
HashAt(n) == IF n \in 1..Height THEN chain[n].hash ELSE 0
Least(a, b) == IF a <= b THEN a ELSE b
Greatest(a, b) == IF a >= b THEN a ELSE b

Indexed == {t \in Txs : events[t] # NoBlock}
Scope == {Factory} \cup addresses

\* getLogs of one block, for a set of addresses.
LogsOf(n, scope) ==
  {[tx |-> t, block |-> n, hash |-> HashAt(n)] :
     t \in {u \in (IF n \in 1..Height THEN chain[n].txs ELSE {}) : Emitter[u] \in scope}}

-----------------------------------------------------------------------------
(* The chain                                                               *)

OnChain(fork) == UNION {fork[i].txs : i \in DOMAIN fork}

\* The blocks that may follow a chain: every transaction once, and a vault's logs not
\* before the factory made the vault.
MayFollow(fork, txs) ==
  /\ txs \cap OnChain(fork) = {}
  /\ \A t \in txs : Emitter[t] \in Vaults =>
       \E u \in OnChain(fork) \cup txs : Emitter[u] = Factory /\ Creates[u] = Emitter[t]

\* `fork` with one block more for each set of transactions, with hashes from `hash` on.
Extended(fork, txs, hash) ==
  fork \o [i \in DOMAIN txs |-> [hash |-> hash + i - 1, txs |-> txs[i]]]

\* All chains that extend `fork` by n blocks with fresh hashes.
Extensions(fork, n, hash) ==
  {Extended(fork, txs, hash) : txs \in
     {s \in [1..n -> SUBSET Txs] :
        \A i \in 1..n : MayFollow(Extended(fork, SubSeq(s, 1, i - 1), hash), s[i])}}

MineBlock ==
  /\ Height < MaxHeight /\ hashes < MaxHashes
  /\ chain' \in Extensions(chain, 1, hashes + 1)
  /\ hashes' = hashes + 1
  /\ UNCHANGED <<deep, db, scan, crashes>>

\* The last blocks are replaced by as many others; dropped transactions may return.
Reorg ==
  \E depth \in 1..Least(MaxReorg, Height) :
    /\ hashes + depth <= MaxHashes
    /\ chain' \in Extensions(SubSeq(chain, 1, Height - depth), depth, hashes + 1)
    /\ hashes' = hashes + depth
    /\ deep' = (deep \/ depth > Confirmations)
    /\ UNCHANGED <<db, scan, crashes>>

-----------------------------------------------------------------------------
Init ==
  /\ chain = <<>> /\ hashes = 0 /\ deep = FALSE
  /\ cursor = NoBlock
  /\ events = [t \in Txs |-> NoBlock]
  /\ addresses = {}
  /\ pc = "idle" /\ head = NoBlock /\ target = NoBlock /\ unread = {}
  /\ logs = {} /\ fresh = {}
  /\ crashes = 0

\* The scan ends, committed or rolled back.
EndScan ==
  /\ pc' = "idle" /\ head' = NoBlock /\ target' = NoBlock /\ unread' = {}
  /\ logs' = {} /\ fresh' = {}

\* BEGIN, the lock, and the latest block as the node that answers knows it.
Begin ==
  /\ pc = "idle"
  /\ Height > 0
  /\ pc' = "cursor"
  /\ \E n \in Greatest(1, Height - MaxLag)..Height :
       head' = [block |-> n, hash |-> HashAt(n)]
  /\ UNCHANGED <<blocks, db, target, unread, logs, fresh, crashes>>

\* The saved cursor's block is still canonical and not ahead of the head.
CursorValid ==
  cursor.block > 0 => HashAt(cursor.block) = cursor.hash /\ cursor.block <= head.block

CheckCursor ==
  /\ pc = "cursor"
  /\ IF CursorValid
     THEN pc' = "range" /\ UNCHANGED <<head, target, unread, logs, fresh>>
     ELSE EndScan
  /\ UNCHANGED <<blocks, db, crashes>>

From == cursor.block + 1

\* Faulty variant: one confirmation more than configured is waited for.
ConfirmedStrictly == Greatest(0, head.block - Confirmations - 1)
Confirmed == Greatest(0, head.block - Confirmations)

ScanTo == Least(Confirmed, From + BatchSize - 1)

\* The last block of the range; the head is not read twice.
ReadTarget ==
  /\ pc = "range"
  /\ From <= ScanTo
  /\ \/ ScanTo = head.block /\ target' = head
     \/ ScanTo # head.block /\ ScanTo <= Height
          /\ target' = [block |-> ScanTo, hash |-> HashAt(ScanTo)]
  /\ unread' = From..ScanTo
  /\ pc' = "logs"
  /\ UNCHANGED <<blocks, db, head, logs, fresh, crashes>>

\* Nothing new is confirmed.
NothingToScan ==
  /\ pc = "range"
  /\ From > ScanTo
  /\ EndScan
  /\ UNCHANGED <<blocks, db, crashes>>

\* getLogsChunked for the known addresses: chunks of a batch are answered in any order.
ReadLogs ==
  /\ pc = "logs"
  /\ \E n \in unread :
       /\ logs' = logs \cup LogsOf(n, Scope)
       /\ unread' = unread \ {n}
  /\ UNCHANGED <<blocks, db, pc, head, target, fresh, crashes>>

\* Only the factory's own logs are decoded.
Announced == {Creates[l.tx] : l \in {k \in logs : Emitter[k.tx] = Factory}} \ {NoVault}

\* Faulty variant: a new vault's logs are read from the next range on.
DiscoverVaultsForNextScan ==
  /\ pc = "logs"
  /\ unread = {}
  /\ fresh' = Announced \ addresses
  /\ pc' = "check"
  /\ UNCHANGED <<blocks, db, head, target, unread, logs, crashes>>

\* The vaults announced by what was read that are not known yet.
DiscoverVaults ==
  /\ pc = "logs"
  /\ unread = {}
  /\ fresh' = Announced \ addresses
  /\ IF fresh' = {}
     THEN pc' = "check" /\ UNCHANGED unread
     ELSE pc' = "newlogs" /\ unread' = From..target.block
  /\ UNCHANGED <<blocks, db, head, target, logs, crashes>>

\* getLogsChunked again, for the new vaults and the same range.
ReadNewLogs ==
  /\ pc = "newlogs"
  /\ \E n \in unread :
       /\ logs' = logs \cup LogsOf(n, fresh)
       /\ unread' = unread \ {n}
       /\ pc' = IF unread' = {} THEN "check" ELSE pc
  /\ UNCHANGED <<blocks, db, head, target, fresh, crashes>>

\* Faulty variant of TargetStands: some block of that number exists.
TargetExists == target.block <= Height

\* The target block has not been replaced while the logs were read.
TargetStands == HashAt(target.block) = target.hash

\* What applyChainLogs refuses: CURSOR_REGRESSION, REORG_CURSOR_MISMATCH and
\* SCAN_HEAD_MISMATCH.
LogsFit ==
  /\ target.block >= cursor.block
  /\ target.block = cursor.block => target.hash = cursor.hash
  /\ \A l \in logs :
       /\ l.block = cursor.block => l.hash = cursor.hash
       /\ l.block <= target.block
       /\ l.block = target.block => l.hash = target.hash

CheckTarget ==
  /\ pc = "check"
  /\ IF TargetStands /\ LogsFit
     THEN pc' = "commit" /\ UNCHANGED <<head, target, unread, logs, fresh>>
     ELSE EndScan
  /\ UNCHANGED <<blocks, db, crashes>>

\* INSERT ... ON CONFLICT DO NOTHING: a transaction keeps the block it was first
\* recorded with.
Recorded ==
  [t \in Txs |->
     IF events[t] = NoBlock /\ \E l \in logs : l.tx = t
     THEN LET l == CHOOSE k \in logs : k.tx = t IN [block |-> l.block, hash |-> l.hash]
     ELSE events[t]]

\* Addresses, events and cursor become durable together.
Commit ==
  /\ pc = "commit"
  /\ addresses' = addresses \cup fresh
  /\ events' = Recorded
  /\ cursor' = target
  /\ EndScan
  /\ UNCHANGED <<blocks, crashes>>

\* The worker dies, a read times out, or the database connection breaks.
Crash ==
  /\ pc # "idle"
  /\ crashes < MaxCrashes
  /\ crashes' = crashes + 1
  /\ EndScan
  /\ UNCHANGED <<blocks, db>>

ScanStep ==
  Begin \/ CheckCursor \/ ReadTarget \/ NothingToScan \/ ReadLogs \/ DiscoverVaults
    \/ ReadNewLogs \/ CheckTarget \/ Commit

Next == MineBlock \/ Reorg \/ ScanStep \/ Crash

Spec == Init /\ [][Next]_vars

\* The worker's timer starts the next scan for ever.
FairSpec == Spec /\ WF_vars(ScanStep)

-----------------------------------------------------------------------------
(* Properties                                                              *)

BlockRef == [block: 0..MaxHeight, hash: 0..MaxHashes]

\* Every variable has its type.
TypeOK ==
  /\ chain \in Seq([hash: 1..MaxHashes, txs: SUBSET Txs]) /\ Height <= MaxHeight
  /\ hashes \in 0..MaxHashes /\ deep \in BOOLEAN
  /\ cursor \in BlockRef /\ head \in BlockRef /\ target \in BlockRef
  /\ events \in [Txs -> BlockRef]
  /\ addresses \subseteq Vaults /\ fresh \subseteq Vaults
  /\ pc \in {"idle", "cursor", "range", "logs", "newlogs", "check", "commit"}
  /\ unread \subseteq 1..MaxHeight
  /\ logs \subseteq [tx: Txs, block: 1..MaxHeight, hash: 1..MaxHashes]

\* As long as no confirmed block is replaced, what the database holds is the canonical
\* history up to the cursor, complete and nothing else: every log of the factory and of
\* every vault created so far, vaults created and used in the same range included, with
\* the block it is in.
IndexIsExact ==
  /\ TypeOK
  /\ ~deep => \A t \in Txs :
       events[t] =
         IF \E n \in 1..Least(cursor.block, Height) : t \in chain[n].txs
         THEN LET n == CHOOSE i \in 1..Height : t \in chain[i].txs
              IN  [block |-> n, hash |-> HashAt(n)]
         ELSE NoBlock

\* What a scan is about to commit was read from one fork, however deep the chain was
\* replaced while it read: no log is from a block produced after the target (hashes
\* count blocks as they are produced, so such a block cannot be below the target), and
\* nothing in the range is missing while the target stands.
ScanReadsOneFork ==
  pc = "commit" =>
    /\ \A l \in logs : l.hash <= target.hash
    /\ HashAt(target.block) = target.hash =>
         logs = UNION {LogsOf(n, Scope \cup fresh) : n \in From..target.block}

\* A cursor that is canonical vouches for the index: as long as its block is on the
\* chain, no recorded event comes from a replaced block.
CanonicalCursorVouches ==
  cursor.block > 0 /\ HashAt(cursor.block) = cursor.hash =>
    \A t \in Indexed : HashAt(events[t].block) = events[t].hash

\* Once the chain stands still the index catches up with every confirmed block the
\* node reports, through rejected scans, crashes and reorganisations, unless a confirmed
\* block was replaced: then the indexer stops on purpose.
CatchesUp == <>[](deep \/ cursor.block >= Greatest(0, Height - MaxLag - Confirmations))
=============================================================================
