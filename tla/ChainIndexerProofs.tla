------------------------- MODULE ChainIndexerProofs -------------------------
(***************************************************************************)
(* The index is the canonical history up to the cursor, and a scan commits *)
(* what one fork holds, for any transactions, vaults, number of            *)
(* confirmations, batch, lag and depth of reorganisations.                 *)
(***************************************************************************)
EXTENDS ChainIndexer, SequenceTheorems, TLAPS

Block == [hash: Nat, txs: SUBSET Txs]

\* Hashes grow with the height, a transaction is in one block, and the factory made a
\* vault no later than the vault's first log.
Orderly(c) ==
  /\ \A i, j \in 1..Len(c) : i < j => c[i].hash < c[j].hash /\ c[i].txs \cap c[j].txs = {}
  /\ \A i \in 1..Len(c) : \A t \in c[i].txs : Emitter[t] \in Vaults =>
       \E j \in 1..i : \E u \in c[j].txs : Emitter[u] = Factory /\ Creates[u] = Emitter[t]

ChainOrderly == Orderly(chain) /\ \A i \in 1..Height : chain[i].hash <= hashes

Stands(b) == HashAt(b.block) = b.hash
Reading == pc \in {"logs", "newlogs", "check", "commit"}

\* Where a scan is: between the cursor and the confirmed part of the head it read.
ScanInRange ==
  /\ cursor.block > 0 => cursor.block + Confirmations <= Height
  /\ pc # "idle" => head.block \in 1..Height /\ head.hash \in 1..hashes
  /\ Reading => /\ From <= target.block /\ target.block + Confirmations <= head.block
                /\ target.hash \in 1..hashes
                /\ unread \subseteq From..target.block

\* The factory's announcements in some blocks.
Known(bs, vaults) ==
  \A n \in bs : \A u \in chain[n].txs :
    Emitter[u] = Factory /\ Creates[u] \in Vaults => Creates[u] \in vaults

LogsOfAll(bs, scope) == UNION {LogsOf(n, scope) : n \in bs}

\* What a scan has read, as long as the target stands.
ScanReads ==
  /\ pc \in {"idle", "cursor", "range"} => logs = {}
  /\ pc = "commit" => \A l \in logs : l.hash <= target.hash
  /\ Reading /\ Stands(target) =>
       /\ pc = "logs" => logs = LogsOfAll((From..target.block) \ unread, Scope)
       /\ pc = "newlogs" =>
            logs = LogsOfAll(From..target.block, Scope) \cup LogsOfAll((From..target.block) \ unread, fresh)
       /\ pc \in {"check", "commit"} => logs = LogsOfAll(From..target.block, Scope \cup fresh)
       /\ pc # "logs" => Known(From..target.block, addresses \cup fresh)

\* What the database holds, block by block.
Placed ==
  \A t \in Txs :
    /\ \A n \in 1..cursor.block : t \in chain[n].txs => events[t] = [block |-> n, hash |-> chain[n].hash]
    /\ (\A n \in 1..cursor.block : t \notin chain[n].txs) => events[t] = NoBlock

\* As long as no confirmed block is replaced, what a scan relies on stands.
Settled ==
  ~deep => /\ pc # "idle" /\ Confirmations = 0 => Stands(head)
           /\ Reading => Stands(target)
           /\ Known(1..cursor.block, addresses)
           /\ Placed

IInv == TypeOK /\ ChainOrderly /\ ScanInRange /\ ScanReads /\ Settled

-----------------------------------------------------------------------------
(* The chain                                                               *)

\* New blocks follow the old ones, with their hashes and transactions.
LEMMA ExtendedShape ==
  ASSUME NEW fork \in Seq(Block), NEW n \in Nat, NEW txs \in [1..n -> SUBSET Txs], NEW hash \in Nat
  PROVE  /\ Extended(fork, txs, hash) \in Seq(Block)
         /\ Len(Extended(fork, txs, hash)) = Len(fork) + n
         /\ \A i \in 1..Len(fork) : Extended(fork, txs, hash)[i] = fork[i]
         /\ \A i \in 1..n : /\ Extended(fork, txs, hash)[Len(fork) + i].hash = hash + i - 1
                             /\ Extended(fork, txs, hash)[Len(fork) + i].txs = txs[i]
<1> DEFINE new == [i \in 1..n |-> [hash |-> hash + i - 1, txs |-> txs[i]]]
<1>1. DOMAIN txs = 1..n
  OBVIOUS
<1>2. Extended(fork, txs, hash) = fork \o new
  BY <1>1 DEF Extended
<1>3. \A i \in 1..n : new[i] \in Block /\ new[i].hash = hash + i - 1 /\ new[i].txs = txs[i]
  BY DEF Block
<1>4. new \in [1..n -> Block]
  BY <1>3 DEF Block
<1>5. new \in Seq(Block) /\ Len(new) = n
  BY <1>4
<1>6. Len(fork) \in Nat
  BY LenProperties
<1> HIDE DEF new
<1>7. /\ fork \o new \in Seq(Block)
      /\ Len(fork \o new) = Len(fork) + Len(new)
      /\ \A i \in 1..Len(fork) + Len(new) :
           (fork \o new)[i] = IF i <= Len(fork) THEN fork[i] ELSE new[i - Len(fork)]
  BY <1>5, ConcatProperties
<1>8. ASSUME NEW i \in 1..n
      PROVE  (fork \o new)[Len(fork) + i].hash = hash + i - 1 /\ (fork \o new)[Len(fork) + i].txs = txs[i]
  <2>1. Len(fork) + i \in 1..Len(fork) + Len(new) /\ ~(Len(fork) + i <= Len(fork))
        /\ Len(fork) + i - Len(fork) = i
    BY <1>5, <1>6
  <2>2. (fork \o new)[Len(fork) + i] = new[Len(fork) + i - Len(fork)]
    BY <1>7, <2>1
  <2>3. (fork \o new)[Len(fork) + i] = new[i]
    BY <2>1, <2>2
  <2>4. new[i].hash = hash + i - 1 /\ new[i].txs = txs[i]
    BY <1>3
  <2> QED
    BY <2>3, <2>4
<1>9. \A i \in 1..Len(fork) : (fork \o new)[i] = fork[i]
  BY <1>5, <1>6, <1>7
<1> QED
  BY <1>2, <1>5, <1>7, <1>8, <1>9

\* The transactions of a chain are those of its blocks.
LEMMA OnChainIs ==
  ASSUME NEW c \in Seq(Block), NEW t
  PROVE  t \in OnChain(c) <=> \E i \in 1..Len(c) : t \in c[i].txs
<1>1. DOMAIN c = 1..Len(c)
  BY LenProperties
<1> QED
  BY <1>1 DEF OnChain

\* An orderly chain stays so when it is extended, and what is added has fresh hashes.
LEMMA ExtensionsOrderly ==
  ASSUME NEW fork \in Seq(Block), Orderly(fork), NEW n \in Nat, NEW hash \in Nat,
         \A i \in 1..Len(fork) : fork[i].hash < hash,
         NEW c \in Extensions(fork, n, hash)
  PROVE  /\ c \in Seq(Block) /\ Len(c) = Len(fork) + n
         /\ \A i \in 1..Len(fork) : c[i] = fork[i]
         /\ \A i \in 1..n : c[Len(fork) + i].hash = hash + i - 1
         /\ Orderly(c)
<1> DEFINE k == Len(fork)
<1>1. PICK s \in [1..n -> SUBSET Txs] :
        /\ c = Extended(fork, s, hash)
        /\ \A i \in 1..n : MayFollow(Extended(fork, SubSeq(s, 1, i - 1), hash), s[i])
  BY DEF Extensions
<1>2. /\ c \in Seq(Block) /\ Len(c) = k + n
      /\ \A i \in 1..k : c[i] = fork[i]
      /\ \A i \in 1..n : c[k + i].hash = hash + i - 1 /\ c[k + i].txs = s[i]
  <2>1. /\ Extended(fork, s, hash) \in Seq(Block)
        /\ Len(Extended(fork, s, hash)) = Len(fork) + n
        /\ \A i \in 1..Len(fork) : Extended(fork, s, hash)[i] = fork[i]
        /\ \A i \in 1..n : /\ Extended(fork, s, hash)[Len(fork) + i].hash = hash + i - 1
                            /\ Extended(fork, s, hash)[Len(fork) + i].txs = s[i]
    BY ExtendedShape, ZenonT(40)
  <2> QED
    BY <1>1, <2>1, Zenon
<1>3. k \in Nat
  BY LenProperties
<1>4. ASSUME NEW i \in 1..n, NEW t
      PROVE  t \in OnChain(Extended(fork, SubSeq(s, 1, i - 1), hash)) <=> \E j \in 1..k + i - 1 : t \in c[j].txs
  <2> DEFINE some == SubSeq(s, 1, i - 1)
             before == Extended(fork, some, hash)
  <2>0. i - 1 \in Nat /\ i - 1 <= n
    OBVIOUS
  <2>1. \A j \in 1..i - 1 : s[j] \in SUBSET Txs
    OBVIOUS
  <2>2. some \in Seq(SUBSET Txs) /\ Len(some) = i - 1 /\ \A j \in 1..i - 1 : some[j] = s[j]
    BY <2>0, <2>1, SubSeqProperties
  <2>3. some \in [1..i - 1 -> SUBSET Txs]
    BY <2>2, LenProperties
  <2> HIDE DEF some
  <2>4. /\ before \in Seq(Block) /\ Len(before) = k + (i - 1)
        /\ \A j \in 1..k : before[j] = fork[j]
        /\ \A j \in 1..i - 1 : before[k + j].txs = some[j]
    <3> DEFINE m == i - 1
    <3>1. m \in Nat /\ some \in [1..m -> SUBSET Txs]
      BY <2>0, <2>3
    <3> HIDE DEF m
    <3>2. /\ Extended(fork, some, hash) \in Seq(Block)
          /\ Len(Extended(fork, some, hash)) = Len(fork) + m
          /\ \A j \in 1..Len(fork) : Extended(fork, some, hash)[j] = fork[j]
          /\ \A j \in 1..m : /\ Extended(fork, some, hash)[Len(fork) + j].hash = hash + j - 1
                              /\ Extended(fork, some, hash)[Len(fork) + j].txs = some[j]
      BY <3>1, ExtendedShape, ZenonT(40)
    <3> QED
      BY <3>2, Zenon DEF m
  <2> HIDE DEF before
  <2>5. ASSUME NEW j \in 1..k + (i - 1) PROVE before[j].txs = c[j].txs
    <3>1. CASE j <= k
      BY <1>2, <1>3, <2>4, <3>1
    <3>2. CASE j > k
      <4>1. j - k \in 1..i - 1 /\ j - k \in 1..n /\ k + (j - k) = j
        BY <1>3, <2>0, <3>2
      <4>2. before[k + (j - k)].txs = some[j - k] /\ c[k + (j - k)].txs = s[j - k]
        BY <1>2, <2>4, <4>1
      <4> QED
        BY <2>2, <4>1, <4>2
    <3> QED
      BY <1>3, <3>1, <3>2
  <2>6. t \in OnChain(before) <=> \E j \in 1..k + (i - 1) : t \in before[j].txs
    BY <2>4, OnChainIs
  <2>7. k + i - 1 = k + (i - 1)
    BY <1>3
  <2> QED
    BY <2>5, <2>6, <2>7 DEF before, some
<1>5. ASSUME NEW j \in 1..Len(c), j > k
      PROVE  /\ j - k \in 1..n /\ c[j].hash = hash + (j - k) - 1 /\ c[j].txs = s[j - k]
             /\ \A i \in 1..j - 1 : c[i].txs \cap c[j].txs = {}
             /\ \A t \in c[j].txs : Emitter[t] \in Vaults =>
                  \E i \in 1..j : \E u \in c[i].txs : Emitter[u] = Factory /\ Creates[u] = Emitter[t]
  <2>1. j - k \in 1..n /\ k + (j - k) = j /\ k + (j - k) - 1 = j - 1
    BY <1>2, <1>3, <1>5
  <2>2. c[j].hash = hash + (j - k) - 1 /\ c[j].txs = s[j - k]
    BY <1>2, <2>1
  <2> DEFINE earlier == OnChain(Extended(fork, SubSeq(s, 1, j - k - 1), hash))
  <2>3. s[j - k] \cap earlier = {}
        /\ \A t \in s[j - k] : Emitter[t] \in Vaults =>
             \E u \in earlier \cup s[j - k] : Emitter[u] = Factory /\ Creates[u] = Emitter[t]
    BY <1>1, <2>1 DEF MayFollow
  <2>4. \A t : t \in earlier <=> \E i \in 1..j - 1 : t \in c[i].txs
    BY <1>4, <2>1
  <2> HIDE DEF earlier
  <2>5. \A i \in 1..j - 1 : c[i].txs \cap c[j].txs = {}
    BY <2>2, <2>3, <2>4
  <2>6. ASSUME NEW t \in c[j].txs, Emitter[t] \in Vaults
        PROVE  \E i \in 1..j : \E u \in c[i].txs : Emitter[u] = Factory /\ Creates[u] = Emitter[t]
    <3>1. PICK u \in earlier \cup s[j - k] : Emitter[u] = Factory /\ Creates[u] = Emitter[t]
      BY <2>2, <2>3, <2>6
    <3>2. CASE u \in earlier
      BY <2>4, <3>1, <3>2, SMTT(40)
    <3>3. CASE u \in s[j - k]
      BY <1>5, <2>2, <3>1, <3>3
    <3> QED
      BY <3>1, <3>2, <3>3
  <2> QED
    BY <2>1, <2>2, <2>5, <2>6
<1>6. ASSUME NEW i \in 1..Len(c), NEW j \in 1..Len(c), i < j
      PROVE  c[i].hash < c[j].hash /\ c[i].txs \cap c[j].txs = {}
  <2>1. CASE j <= k
    <3>1. i \in 1..k /\ j \in 1..k
      BY <1>2, <1>3, <1>6, <2>1
    <3>2. fork[i].hash < fork[j].hash /\ fork[i].txs \cap fork[j].txs = {}
      BY <1>6, <3>1 DEF Orderly
    <3> QED
      BY <1>2, <3>1, <3>2
  <2>2. CASE j > k
    <3>1. i \in 1..j - 1
      BY <1>2, <1>3, <1>6
    <3>2. c[i].txs \cap c[j].txs = {} /\ c[j].hash = hash + (j - k) - 1 /\ j - k \in 1..n
      BY <1>5, <2>2, <3>1
    <3>3. c[i].hash < c[j].hash
      <4>1. CASE i <= k
        <5>0. i \in 1..k
          BY <1>3, <3>1, <4>1
        <5>1. fork[i].hash < hash /\ fork[i] \in Block
          BY <5>0, ElementOfSeq
        <5>2. c[i].hash < hash /\ c[i].hash \in Nat
          BY <1>2, <5>0, <5>1 DEF Block
        <5> QED
          BY <3>2, <5>2
      <4>2. CASE i > k
        <5>1. c[i].hash = hash + (i - k) - 1
          BY <1>5, <4>2
        <5> QED
          BY <1>2, <1>3, <1>6, <3>2, <5>1
      <4> QED
        BY <1>3, <4>1, <4>2
    <3> QED
      BY <3>2, <3>3
  <2> QED
    BY <1>2, <1>3, <2>1, <2>2
<1>7. ASSUME NEW i \in 1..Len(c), NEW t \in c[i].txs, Emitter[t] \in Vaults
      PROVE  \E j \in 1..i : \E u \in c[j].txs : Emitter[u] = Factory /\ Creates[u] = Emitter[t]
  <2>1. CASE i <= k
    <3>1. i \in 1..k /\ \A j \in 1..i : j \in 1..k
      BY <1>3, <2>1
    <3>2. \E j \in 1..i : \E u \in fork[j].txs : Emitter[u] = Factory /\ Creates[u] = Emitter[t]
      BY <1>2, <1>7, <3>1, SMTT(40) DEF Orderly
    <3> QED
      BY <1>2, <3>1, <3>2
  <2>2. CASE i > k
    BY <1>5, <1>7, <2>2
  <2> QED
    BY <1>2, <1>3, <2>1, <2>2
<1>8. Orderly(c)
  BY <1>6, <1>7 DEF Orderly
<1>9. \A i \in 1..n : c[k + i].hash = hash + i - 1
  BY <1>2
<1> QED
  BY <1>2, <1>8, <1>9

\* A step of the chain: what is above block k is new.
Replaced(k) ==
  /\ k \in 0..Height
  /\ Height' \in Nat /\ Height' >= Height
  /\ \A i \in 1..k : chain'[i] = chain[i]
  /\ \A i \in k + 1..Height' : chain'[i].hash > hashes
  /\ hashes' >= hashes
  /\ ~deep' => ~deep /\ k + Confirmations >= Height

\* What the type of the chain says of its blocks.
LEMMA BlocksTyped ==
  ASSUME TypeOK
  PROVE  /\ Height \in Nat /\ hashes \in Nat
         /\ \A i \in 1..Height : chain[i] \in Block /\ chain[i].hash \in 1..MaxHashes /\ chain[i].txs \subseteq Txs
<1> DEFINE T == [hash: 1..MaxHashes, txs: SUBSET Txs]
<1>1. chain \in Seq(T)
  BY DEF TypeOK
<1>2. Height \in Nat /\ \A i \in 1..Height : chain[i] \in T
  BY <1>1, LenProperties, ElementOfSeq DEF Height
<1> QED
  BY <1>2, DepthAssumption DEF TypeOK, Block

\* A function on 1..n is a sequence.
LEMMA FunctionIsSeq ==
  ASSUME NEW S, NEW n \in Nat, NEW f \in [1..n -> S]
  PROVE  f \in Seq(S)
OBVIOUS

\* The end of the chain above block k is replaced by n blocks.
LEMMA BlocksReplaced ==
  ASSUME TypeOK, ChainOrderly, NEW k \in 0..Height, NEW n \in Nat,
         hashes + n <= MaxHashes, k + n <= MaxHeight, k + n >= Height,
         chain' \in Extensions(SubSeq(chain, 1, k), n, hashes + 1),
         hashes' = hashes + n,
         ~deep' => ~deep /\ k + Confirmations >= Height
  PROVE  /\ Replaced(k) /\ ChainOrderly'
         /\ chain' \in Seq([hash: 1..MaxHashes, txs: SUBSET Txs])
         /\ (Height <= MaxHeight)' /\ hashes' \in 0..MaxHashes
<1> DEFINE fork == SubSeq(chain, 1, k)
           T == [hash: 1..MaxHashes, txs: SUBSET Txs]
<1>1. /\ Height \in Nat /\ hashes \in Nat /\ k \in Nat /\ k <= Height
      /\ \A i \in 1..Height : chain[i] \in Block /\ chain[i].hash \in 1..MaxHashes
  BY BlocksTyped
<1>2. \A i \in 1..k : chain[i] \in Block
  BY <1>1
<1>3. fork \in Seq(Block) /\ Len(fork) = k /\ \A i \in 1..k : fork[i] = chain[i]
  BY <1>1, <1>2, SubSeqProperties
<1>4. Orderly(fork)
  <2>1. \A i, j \in 1..k : i < j => chain[i].hash < chain[j].hash /\ chain[i].txs \cap chain[j].txs = {}
    BY <1>1 DEF ChainOrderly, Orderly, Height
  <2>2. ASSUME NEW i \in 1..k, NEW t \in chain[i].txs, Emitter[t] \in Vaults
        PROVE  \E j \in 1..i : \E u \in chain[j].txs : Emitter[u] = Factory /\ Creates[u] = Emitter[t]
    BY <1>1, <2>2 DEF ChainOrderly, Orderly, Height
  <2>3. \A i \in 1..k : \A j \in 1..i : j \in 1..k
    BY <1>1
  <2> QED
    BY <1>3, <2>1, <2>2, <2>3 DEF Orderly
<1>5. \A i \in 1..Len(fork) : fork[i].hash < hashes + 1
  BY <1>1, <1>3 DEF ChainOrderly, Block
<1> HIDE DEF fork
<1>6. /\ chain' \in Seq(Block) /\ Len(chain') = Len(fork) + n
      /\ \A i \in 1..Len(fork) : chain'[i] = fork[i]
      /\ \A i \in 1..n : chain'[Len(fork) + i].hash = (hashes + 1) + i - 1
      /\ Orderly(chain')
  <2>1. hashes + 1 \in Nat /\ chain' \in Extensions(fork, n, hashes + 1)
    BY <1>1 DEF fork
  <2> QED
    BY <1>3, <1>4, <1>5, <2>1, ExtensionsOrderly
<1>7. Height' = k + n /\ \A i \in 1..k : chain'[i] = chain[i]
  BY <1>3, <1>6 DEF Height
<1>8. ASSUME NEW i \in k + 1..Height' PROVE chain'[i].hash = hashes + (i - k)
  <2>1. i - k \in 1..n /\ k + (i - k) = i
    BY <1>1, <1>7
  <2>2. chain'[k + (i - k)].hash = (hashes + 1) + (i - k) - 1
    BY <1>3, <1>6, <2>1
  <2> QED
    BY <1>1, <2>1, <2>2
<1>9. Replaced(k)
  <2>1. \A i \in k + 1..Height' : chain'[i].hash > hashes
    BY <1>1, <1>7, <1>8
  <2>2. Height' \in Nat /\ Height' >= Height /\ hashes' >= hashes
    BY <1>1, <1>7
  <2> QED
    BY <1>7, <2>1, <2>2 DEF Replaced
<1>10. ASSUME NEW i \in 1..Height'
       PROVE  chain'[i] \in Block /\ chain'[i].hash \in 1..MaxHashes /\ chain'[i].hash <= hashes'
  <2>1. chain'[i] \in Block
    BY <1>6, <1>10, ElementOfSeq DEF Height
  <2>2. CASE i <= k
    <3>1. i \in 1..k /\ i \in 1..Height
      BY <1>1, <2>2
    <3>2. chain'[i].hash = chain[i].hash /\ chain[i].hash <= hashes
      BY <1>7, <3>1 DEF ChainOrderly
    <3> QED
      BY <1>1, <2>1, <3>1, <3>2
  <2>3. CASE i > k
    <3>1. i \in k + 1..Height' /\ i - k \in 1..n
      BY <1>1, <1>7, <2>3
    <3> QED
      BY <1>1, <1>8, <2>1, <3>1, DepthAssumption
  <2> QED
    BY <1>1, <2>2, <2>3
<1>11. chain' \in Seq(T)
  <2>1. DOMAIN chain' = 1..Height' /\ chain' \in [1..Height' -> Block]
    BY <1>6, LenProperties DEF Height
  <2>2. chain' \in [1..Height' -> T]
    BY <1>10, <2>1 DEF Block
  <2>3. Height' \in Nat
    BY <1>1, <1>7
  <2> QED
    BY <2>2, <2>3, FunctionIsSeq
<1>12. (Height <= MaxHeight)' /\ hashes' \in 0..MaxHashes
  BY <1>1, <1>7, DepthAssumption
<1> QED
  BY <1>6, <1>9, <1>10, <1>11, <1>12 DEF ChainOrderly

\* Blocks are mined and replaced in that way.
LEMMA ChainSteps ==
  ASSUME TypeOK, ChainOrderly, MineBlock \/ Reorg
  PROVE  /\ \E k \in 0..Height : Replaced(k)
         /\ TypeOK' /\ ChainOrderly' /\ UNCHANGED <<db, scan, crashes>>
<1>0. Height \in Nat /\ hashes \in Nat /\ deep \in BOOLEAN
  BY BlocksTyped DEF TypeOK
<1>1. PICK k \in 0..Height, n \in Nat :
        /\ hashes + n <= MaxHashes /\ k + n <= MaxHeight /\ k + n >= Height
        /\ chain' \in Extensions(SubSeq(chain, 1, k), n, hashes + 1)
        /\ hashes' = hashes + n
        /\ ~deep' => ~deep /\ k + Confirmations >= Height
        /\ deep' \in BOOLEAN
        /\ UNCHANGED <<db, scan, crashes>>
  <2>1. CASE MineBlock
    <3>1. SubSeq(chain, 1, Height) = chain
      <4>1. chain \in Seq([hash: 1..MaxHashes, txs: SUBSET Txs])
        BY DEF TypeOK
      <4> QED
        BY <4>1, SubSeqFull DEF Height
    <3>2. /\ hashes + 1 <= MaxHashes /\ Height + 1 <= MaxHeight /\ Height + 1 >= Height
          /\ Height \in 0..Height /\ 1 \in Nat /\ Height + Confirmations >= Height
      BY <1>0, <2>1, DepthAssumption DEF MineBlock
    <3>3. chain' \in Extensions(SubSeq(chain, 1, Height), 1, hashes + 1)
      BY <2>1, <3>1 DEF MineBlock
    <3>4. hashes' = hashes + 1 /\ deep' = deep /\ UNCHANGED <<db, scan, crashes>>
      BY <2>1 DEF MineBlock
    <3> QED
      BY <1>0, <3>2, <3>3, <3>4
  <2>2. CASE Reorg
    <3>1. PICK depth \in 1..Least(MaxReorg, Height) :
            /\ hashes + depth <= MaxHashes
            /\ chain' \in Extensions(SubSeq(chain, 1, Height - depth), depth, hashes + 1)
            /\ hashes' = hashes + depth
            /\ deep' = (deep \/ depth > Confirmations)
            /\ UNCHANGED <<db, scan, crashes>>
      BY <2>2 DEF Reorg
    <3>2. Height <= MaxHeight
      BY DEF TypeOK
    <3>3. /\ depth \in Nat /\ Height - depth \in 0..Height /\ (Height - depth) + depth <= MaxHeight
          /\ (Height - depth) + depth >= Height
          /\ depth <= Confirmations => (Height - depth) + Confirmations >= Height
      BY <1>0, <3>1, <3>2, DepthAssumption DEF Least
    <3>4. deep' \in BOOLEAN /\ (~deep' => ~deep /\ (Height - depth) + Confirmations >= Height)
      <4>1. depth > Confirmations \/ depth <= Confirmations
        BY <3>3, DepthAssumption
      <4> QED
        BY <3>1, <3>3, <4>1
    <3> QED
      BY <3>1, <3>3, <3>4
  <2> QED
    BY <2>1, <2>2
<1>2. /\ Replaced(k) /\ ChainOrderly'
      /\ chain' \in Seq([hash: 1..MaxHashes, txs: SUBSET Txs])
      /\ (Height <= MaxHeight)' /\ hashes' \in 0..MaxHashes
  BY <1>1, BlocksReplaced
<1>3. TypeOK'
  BY <1>1, <1>2 DEF TypeOK, db, scan
<1> QED
  BY <1>1, <1>2, <1>3

-----------------------------------------------------------------------------
(* Types                                                                   *)

LogType == [tx: Txs, block: 1..MaxHeight, hash: 1..MaxHashes]

\* The logs of a block are those of its transactions, with its number and hash.
LEMMA LogIn ==
  ASSUME NEW n \in 1..Height, NEW scope, NEW l
  PROVE  l \in LogsOf(n, scope) <=>
           \E t \in chain[n].txs : Emitter[t] \in scope /\ l = [tx |-> t, block |-> n, hash |-> chain[n].hash]
BY DEF LogsOf, HashAt

\* Logs have the type the model keeps them in.
LEMMA LogsTyped ==
  ASSUME TypeOK, NEW n \in Int, NEW scope
  PROVE  LogsOf(n, scope) \subseteq LogType
<1>1. CASE n \in 1..Height
  <2>1. chain[n].txs \subseteq Txs /\ chain[n].hash \in 1..MaxHashes /\ n \in 1..MaxHeight
    BY <1>1, BlocksTyped, DepthAssumption DEF TypeOK
  <2> QED
    BY <1>1, <2>1, LogIn DEF LogType
<1>2. CASE n \notin 1..Height
  BY <1>2 DEF LogsOf
<1> QED
  BY <1>1, <1>2

\* The hash the node reports for a block, or 0.
LEMMA HashTyped ==
  ASSUME TypeOK, NEW n \in Int
  PROVE  /\ HashAt(n) \in 0..MaxHashes
         /\ n \in 1..Height => HashAt(n) = chain[n].hash /\ HashAt(n) \in 1..MaxHashes
         /\ HashAt(n) # 0 => n \in 1..Height
BY BlocksTyped, DepthAssumption DEF HashAt

\* The initial state has the types.
LEMMA TypeInit == Init => TypeOK
<1> SUFFICES ASSUME Init PROVE TypeOK
  OBVIOUS
<1>1. chain = <<>> /\ Height = 0 /\ chain \in Seq([hash: 1..MaxHashes, txs: SUBSET Txs])
  BY DEF Init, Height
<1>2. NoBlock \in BlockRef
  BY DepthAssumption DEF NoBlock, BlockRef
<1>3. /\ cursor \in BlockRef /\ head \in BlockRef /\ target \in BlockRef /\ events \in [Txs -> BlockRef]
      /\ addresses = {} /\ fresh = {} /\ logs = {} /\ unread = {} /\ pc = "idle" /\ deep = FALSE /\ hashes = 0
  BY <1>2 DEF Init
<1>4. Height <= MaxHeight /\ hashes \in 0..MaxHashes
  BY <1>1, <1>3, DepthAssumption
<1> QED
  BY <1>1, <1>3, <1>4 DEF TypeOK

\* A scan that ends leaves the types.
LEMMA EndTyped ==
  ASSUME TypeOK, EndScan, UNCHANGED blocks,
         (cursor \in BlockRef)', (events \in [Txs -> BlockRef])', (addresses \subseteq Vaults)'
  PROVE  TypeOK'
<1>1. NoBlock \in BlockRef
  BY DepthAssumption DEF NoBlock, BlockRef
<1> QED
  BY <1>1 DEF EndScan, TypeOK, blocks, Height

\* Every step of a scan keeps the types.
LEMMA TypeScan == TypeOK /\ (ScanStep \/ Crash) => TypeOK'
<1> SUFFICES ASSUME TypeOK, ScanStep \/ Crash PROVE TypeOK'
  OBVIOUS
<1>0. /\ Height \in Nat /\ Height <= MaxHeight /\ hashes \in Nat
      /\ cursor \in BlockRef /\ head \in BlockRef /\ target \in BlockRef
      /\ cursor.block \in 0..MaxHeight /\ head.block \in 0..MaxHeight /\ target.block \in 0..MaxHeight
      /\ From \in 1..MaxHeight + 1
  BY BlocksTyped, DepthAssumption DEF TypeOK, BlockRef, From
<1>1. CASE Begin
  <2>1. PICK n \in Greatest(1, Height - MaxLag)..Height : head' = [block |-> n, hash |-> HashAt(n)]
    BY <1>1 DEF Begin
  <2>2. n \in Int /\ n \in 0..MaxHeight
    BY <1>0, <2>1, DepthAssumption DEF Greatest
  <2>3. head' \in BlockRef
    BY <2>1, <2>2, HashTyped DEF BlockRef
  <2> QED
    BY <1>1, <2>3 DEF Begin, TypeOK, blocks, db, Height
<1>2. CASE CheckCursor
  <2>1. CASE CursorValid
    BY <1>2, <2>1 DEF CheckCursor, TypeOK, blocks, db, Height
  <2>2. CASE ~CursorValid
    BY <1>2, <2>2, EndTyped DEF CheckCursor, db, TypeOK
  <2> QED
    BY <2>1, <2>2
<1>3. CASE ReadTarget
  <2>1. ScanTo \in Int /\ ScanTo \in 0..MaxHeight /\ From..ScanTo \subseteq 1..MaxHeight
    BY <1>0, DepthAssumption DEF ScanTo, Confirmed, Least, Greatest
  <2>2. target' \in BlockRef
    <3>1. CASE ScanTo = head.block /\ target' = head
      BY <1>0, <3>1
    <3>2. CASE ScanTo <= Height /\ target' = [block |-> ScanTo, hash |-> HashAt(ScanTo)]
      BY <2>1, <3>2, HashTyped DEF BlockRef
    <3> QED
      BY <1>3, <3>1, <3>2 DEF ReadTarget
  <2>3. unread' \subseteq 1..MaxHeight
    BY <1>3, <2>1 DEF ReadTarget
  <2> QED
    BY <1>3, <2>2, <2>3 DEF ReadTarget, TypeOK, blocks, db, Height
<1>4. CASE NothingToScan
  BY <1>4, EndTyped DEF NothingToScan, db, TypeOK
<1>5. CASE ReadLogs
  <2>1. PICK n \in unread : logs' = logs \cup LogsOf(n, Scope) /\ unread' = unread \ {n}
    BY <1>5 DEF ReadLogs
  <2>2. n \in Int
    BY <2>1 DEF TypeOK
  <2>3. logs' \subseteq LogType /\ unread' \subseteq 1..MaxHeight
    BY <2>1, <2>2, LogsTyped DEF TypeOK, LogType
  <2> QED
    BY <1>5, <2>3 DEF ReadLogs, TypeOK, LogType, blocks, db, Height
<1>6. CASE DiscoverVaults
  <2>1. Announced \subseteq Vaults
    BY TxAssumption DEF Announced, TypeOK
  <2>2. unread' \subseteq 1..MaxHeight
    <3>1. From..target.block \subseteq 1..MaxHeight
      BY <1>0, DepthAssumption
    <3> QED
      BY <1>6, <3>1 DEF DiscoverVaults, TypeOK
  <2>3. fresh' \subseteq Vaults /\ pc' \in {"check", "newlogs"}
    BY <1>6, <2>1 DEF DiscoverVaults
  <2> QED
    BY <1>6, <2>2, <2>3 DEF DiscoverVaults, TypeOK, blocks, db, Height
<1>7. CASE ReadNewLogs
  <2>1. PICK n \in unread : /\ logs' = logs \cup LogsOf(n, fresh) /\ unread' = unread \ {n}
                            /\ pc' = IF unread' = {} THEN "check" ELSE pc
    BY <1>7 DEF ReadNewLogs
  <2>2. n \in Int
    BY <2>1 DEF TypeOK
  <2>3. logs' \subseteq LogType /\ unread' \subseteq 1..MaxHeight
    BY <2>1, <2>2, LogsTyped DEF TypeOK, LogType
  <2> QED
    BY <1>7, <2>1, <2>3 DEF ReadNewLogs, TypeOK, LogType, blocks, db, Height
<1>8. CASE CheckTarget
  <2>1. CASE TargetStands /\ LogsFit
    BY <1>8, <2>1 DEF CheckTarget, TypeOK, blocks, db, Height
  <2>2. CASE ~(TargetStands /\ LogsFit)
    BY <1>8, <2>2, EndTyped DEF CheckTarget, db, TypeOK
  <2> QED
    BY <2>1, <2>2
<1>9. CASE Commit
  <2>1. addresses' \subseteq Vaults /\ cursor' \in BlockRef
    BY <1>0, <1>9 DEF Commit, TypeOK
  <2>2. ASSUME NEW t \in Txs PROVE Recorded[t] \in BlockRef
    <3>1. CASE events[t] = NoBlock /\ \E l \in logs : l.tx = t
      <4> DEFINE l == CHOOSE k \in logs : k.tx = t
      <4>1. l \in logs
        BY <3>1
      <4>2. l.block \in 1..MaxHeight /\ l.hash \in 1..MaxHashes
        BY <4>1 DEF TypeOK
      <4>3. Recorded[t] = (LET k == l IN [block |-> k.block, hash |-> k.hash])
        BY <3>1 DEF Recorded
      <4> HIDE DEF l
      <4>4. l.block \in 0..MaxHeight /\ l.hash \in 0..MaxHashes
        BY <4>2
      <4> QED
        BY <4>3, <4>4 DEF BlockRef
    <3>2. CASE ~(events[t] = NoBlock /\ \E l \in logs : l.tx = t)
      BY <3>2 DEF Recorded, TypeOK
    <3> QED
      BY <3>1, <3>2
  <2>3. Recorded \in [Txs -> BlockRef]
    BY <2>2 DEF Recorded
  <2>4. events' \in [Txs -> BlockRef] /\ EndScan /\ UNCHANGED blocks
    BY <1>9, <2>3 DEF Commit
  <2> QED
    BY <2>1, <2>4, EndTyped
<1>10. CASE Crash
  BY <1>10, EndTyped DEF Crash, db, TypeOK
<1> QED
  BY <1>1, <1>2, <1>3, <1>4, <1>5, <1>6, <1>7, <1>8, <1>9, <1>10 DEF ScanStep

-----------------------------------------------------------------------------
(* Blocks are mined and replaced                                           *)

\* A block that stands after the chain was replaced stood before, below what is new.
LEMMA StandsStays ==
  ASSUME TypeOK, TypeOK', NEW k \in 0..Height, Replaced(k),
         NEW n \in Nat, NEW h \in 1..hashes, HashAt(n)' = h
  PROVE  n \in 1..k /\ HashAt(n) = h
<1>1. Height \in Nat /\ hashes \in Nat /\ Height' \in Nat /\ Height' >= Height
  BY BlocksTyped DEF Replaced
<1>2. HashAt(n)' = (IF n \in 1..Height' THEN chain'[n].hash ELSE 0)
  BY DEF HashAt
<1>3. n \in 1..Height' /\ chain'[n].hash = h
  BY <1>1, <1>2
<1>4. n <= k
  <2>1. \A i \in k + 1..Height' : chain'[i].hash > hashes
    BY DEF Replaced
  <2> SUFFICES ASSUME ~(n <= k) PROVE FALSE
    OBVIOUS
  <2>2. n \in k + 1..Height'
    BY <1>1, <1>3
  <2>3. h > hashes
    BY <1>3, <2>1, <2>2
  <2> QED
    BY <1>1, <2>3
<1>5. n \in 1..k /\ n \in 1..Height /\ chain'[n] = chain[n]
  BY <1>1, <1>3, <1>4 DEF Replaced
<1> QED
  BY <1>3, <1>5 DEF HashAt

\* Below what is new every read answers as before.
LEMMA BelowIsKept ==
  ASSUME TypeOK, NEW k \in 0..Height, Replaced(k), NEW n \in 1..k
  PROVE  /\ chain'[n] = chain[n] /\ HashAt(n)' = HashAt(n)
         /\ \A scope : LogsOf(n, scope)' = LogsOf(n, scope)
<1>1. Height \in Nat /\ Height' \in Nat /\ Height' >= Height
  BY BlocksTyped DEF Replaced
<1>2. n \in 1..Height /\ n \in 1..Height' /\ chain'[n] = chain[n]
  BY <1>1 DEF Replaced
<1>3. HashAt(n)' = HashAt(n)
  BY <1>2 DEF HashAt
<1>4. \A scope : LogsOf(n, scope)' = LogsOf(n, scope)
  BY <1>2, <1>3 DEF LogsOf
<1> QED
  BY <1>2, <1>3, <1>4

\* The scan keeps its invariants while blocks are mined and replaced.
LEMMA ChainKeeps ==
  ASSUME IInv, TypeOK', NEW k \in 0..Height, Replaced(k), UNCHANGED <<db, scan>>
  PROVE  ScanInRange' /\ ScanReads' /\ Settled'
<1>0. /\ Height \in Nat /\ hashes \in Nat /\ Height' \in Nat /\ Height' >= Height
      /\ hashes' \in Nat /\ hashes' >= hashes
      /\ cursor.block \in Nat /\ head.block \in Nat /\ target.block \in Nat
      /\ head.hash \in Nat /\ target.hash \in Nat
      /\ Confirmations \in Nat /\ k \in Nat /\ k <= Height
  <2>1. TypeOK
    BY DEF IInv
  <2>2. Height \in Nat /\ hashes \in Nat
    BY <2>1, BlocksTyped
  <2>3. Height' \in Nat /\ Height' >= Height /\ hashes' >= hashes
    BY DEF Replaced
  <2>4. hashes' \in Nat
    BY DepthAssumption DEF TypeOK
  <2>5. cursor \in BlockRef /\ head \in BlockRef /\ target \in BlockRef
    BY <2>1 DEF TypeOK
  <2>6. /\ cursor.block \in Nat /\ head.block \in Nat /\ target.block \in Nat
        /\ head.hash \in Nat /\ target.hash \in Nat
    BY <2>5, DepthAssumption DEF BlockRef
  <2> QED
    BY <2>2, <2>3, <2>4, <2>6, DepthAssumption
<1>1. /\ cursor' = cursor /\ events' = events /\ addresses' = addresses /\ pc' = pc /\ head' = head
      /\ target' = target /\ unread' = unread /\ logs' = logs /\ fresh' = fresh
  BY DEF db, scan
<1>2. From' = From /\ Scope' = Scope /\ Reading' = Reading
  BY <1>1 DEF From, Scope, Reading
<1>3. ScanInRange'
  BY <1>0, <1>1, <1>2 DEF IInv, ScanInRange
<1>4. \A n \in 1..k : /\ chain'[n] = chain[n] /\ HashAt(n)' = HashAt(n)
                      /\ \A scope : LogsOf(n, scope)' = LogsOf(n, scope)
  BY BelowIsKept, Zenon DEF IInv
<1>5. ScanReads'
  <2>1. (pc \in {"idle", "cursor", "range"} => logs = {})'
        /\ (pc = "commit" => \A l \in logs : l.hash <= target.hash)'
    BY <1>1 DEF IInv, ScanReads
  <2>2. ASSUME Reading, Stands(target)'
        PROVE  /\ Stands(target) /\ target.block <= k
    BY <1>0, <1>1, <2>2, StandsStays DEF IInv, ScanInRange, Stands
  <2>3. ASSUME Reading, Stands(target)'
        PROVE  /\ \A n \in From..target.block : n \in 1..k
               /\ (From..target.block)' = From..target.block
               /\ ((From..target.block) \ unread)' = (From..target.block) \ unread
    BY <1>0, <1>1, <1>2, <2>2, <2>3 DEF From
  <2>4. ASSUME Reading, Stands(target)', NEW n \in From..target.block
        PROVE  /\ LogsOf(n, Scope)' = LogsOf(n, Scope)
               /\ LogsOf(n, fresh)' = LogsOf(n, fresh)
               /\ LogsOf(n, Scope \cup fresh)' = LogsOf(n, Scope \cup fresh)
    <3>1. n \in 1..k /\ n \in 1..Height /\ n \in 1..Height' /\ chain'[n] = chain[n]
      BY <1>0, <1>4, <2>3, <2>4
    <3> QED
      BY <1>1, <1>2, <3>1 DEF LogsOf, HashAt
  <2>5. ASSUME Reading, Stands(target)'
        PROVE  /\ LogsOfAll(From..target.block, Scope)' = LogsOfAll(From..target.block, Scope)
               /\ LogsOfAll((From..target.block) \ unread, Scope)' = LogsOfAll((From..target.block) \ unread, Scope)
               /\ LogsOfAll((From..target.block) \ unread, fresh)' = LogsOfAll((From..target.block) \ unread, fresh)
               /\ LogsOfAll(From..target.block, Scope \cup fresh)' = LogsOfAll(From..target.block, Scope \cup fresh)
    BY <2>3, <2>4, <2>5 DEF LogsOfAll
  <2>6. ASSUME Reading, Stands(target)', Known(From..target.block, addresses \cup fresh)
        PROVE  Known(From..target.block, addresses \cup fresh)'
    <3>1. \A n \in From..target.block : chain'[n] = chain[n]
      BY <1>4, <2>3, <2>6
    <3> QED
      BY <1>1, <1>2, <2>6, <3>1 DEF Known
  <2>7. ASSUME Reading, Stands(target)'
        PROVE  ( /\ pc = "logs" => logs = LogsOfAll((From..target.block) \ unread, Scope)
                 /\ pc = "newlogs" =>
                      logs = LogsOfAll(From..target.block, Scope) \cup LogsOfAll((From..target.block) \ unread, fresh)
                 /\ pc \in {"check", "commit"} => logs = LogsOfAll(From..target.block, Scope \cup fresh)
                 /\ pc # "logs" => Known(From..target.block, addresses \cup fresh) )'
    BY <1>1, <2>2, <2>5, <2>6, <2>7 DEF IInv, ScanReads
  <2> QED
    BY <1>2, <2>1, <2>7 DEF ScanReads
<1>6. Settled'
  <2> SUFFICES ASSUME ~deep'
               PROVE  /\ pc' # "idle" /\ Confirmations = 0 => Stands(head)'
                      /\ Reading' => Stands(target)'
                      /\ Known(1..cursor.block, addresses)'
                      /\ Placed'
    BY DEF Settled
  <2>1. ~deep /\ k + Confirmations >= Height
    BY DEF Replaced
  <2>2. pc # "idle" /\ Confirmations = 0 => Stands(head)'
    <3> SUFFICES ASSUME pc # "idle", Confirmations = 0 PROVE Stands(head)'
      OBVIOUS
    <3>1. head.block \in 1..k
      BY <1>0, <2>1 DEF IInv, ScanInRange
    <3> QED
      BY <1>1, <1>4, <2>1, <3>1 DEF IInv, Settled, Stands
  <2>3. Reading => Stands(target)'
    <3> SUFFICES ASSUME Reading PROVE Stands(target)'
      OBVIOUS
    <3>1. pc # "idle"
      BY DEF Reading
    <3>2. target.block \in 1..k
      BY <1>0, <2>1, <3>1 DEF IInv, ScanInRange, From
    <3> QED
      BY <1>1, <1>4, <2>1, <3>2 DEF IInv, Settled, Stands
  <2>4. \A n \in 1..cursor.block : n \in 1..k
    BY <1>0, <2>1 DEF IInv, ScanInRange
  <2>5. Known(1..cursor.block, addresses)'
    <3>1. Known(1..cursor.block, addresses)
      BY <2>1 DEF IInv, Settled
    <3>2. \A n \in 1..cursor.block : chain'[n] = chain[n]
      BY <1>4, <2>4
    <3> QED
      BY <1>1, <3>1, <3>2 DEF Known
  <2>6. Placed'
    <3>1. Placed
      BY <2>1 DEF IInv, Settled
    <3>2. \A n \in 1..cursor.block : chain'[n] = chain[n]
      BY <1>4, <2>4
    <3> QED
      BY <1>1, <3>1, <3>2 DEF Placed
  <2> QED
    BY <1>1, <1>2, <2>2, <2>3, <2>5, <2>6
<1> QED
  BY <1>3, <1>5, <1>6

-----------------------------------------------------------------------------
(* A scan                                                                  *)

\* What the types and the range give about numbers.
LEMMA ScanNumbers ==
  ASSUME IInv
  PROVE  /\ TypeOK /\ Height \in Nat /\ hashes \in Nat /\ Confirmations \in Nat
         /\ cursor.block \in Nat /\ head.block \in Nat /\ target.block \in Nat
         /\ head.hash \in Nat /\ target.hash \in Nat
         /\ From \in Nat \ {0} /\ From = cursor.block + 1
         /\ Reading => target.block <= Height /\ target.block + Confirmations <= Height
<1>1. TypeOK /\ Height \in Nat /\ hashes \in Nat
  BY BlocksTyped DEF IInv
<1>2. cursor \in BlockRef /\ head \in BlockRef /\ target \in BlockRef
  BY <1>1 DEF TypeOK
<1>3. /\ cursor.block \in Nat /\ head.block \in Nat /\ target.block \in Nat
      /\ head.hash \in Nat /\ target.hash \in Nat
  BY <1>2, DepthAssumption DEF BlockRef
<1>4. Reading => target.block + Confirmations <= Height
  <2> SUFFICES ASSUME Reading PROVE target.block + Confirmations <= Height
    OBVIOUS
  <2>1. pc # "idle"
    BY DEF Reading
  <2>2. head.block <= Height /\ target.block + Confirmations <= head.block
    BY <1>1, <2>1 DEF IInv, ScanInRange
  <2> QED
    BY <1>1, <1>3, <2>2, DepthAssumption
<1> QED
  BY <1>1, <1>3, <1>4, DepthAssumption DEF From

\* What a scan does not touch, it leaves as it was.
LEMMA BlocksKept ==
  ASSUME UNCHANGED blocks
  PROVE  /\ chain' = chain /\ hashes' = hashes /\ deep' = deep /\ Height' = Height
         /\ \A n : HashAt(n)' = HashAt(n)
BY DEF blocks, Height, HashAt

\* A scan that ends without committing.
LEMMA EndKeeps ==
  ASSUME IInv, EndScan, UNCHANGED <<blocks, db>>
  PROVE  ChainOrderly' /\ ScanInRange' /\ ScanReads' /\ Settled'
<1>1. /\ chain' = chain /\ hashes' = hashes /\ deep' = deep /\ Height' = Height
      /\ cursor' = cursor /\ events' = events /\ addresses' = addresses
      /\ pc' = "idle" /\ logs' = {} /\ ~Reading'
  BY BlocksKept DEF db, EndScan, Reading
<1>2. ChainOrderly' /\ ScanInRange' /\ ScanReads'
  BY <1>1 DEF IInv, ChainOrderly, ScanInRange, ScanReads
<1>3. Settled'
  BY <1>1 DEF IInv, Settled, Known, Placed
<1> QED
  BY <1>2, <1>3

\* A step that neither commits nor touches what the chain says about head and target.
LEMMA SettledKept ==
  ASSUME IInv, UNCHANGED <<blocks, db>>,
         ~deep => /\ pc' # "idle" /\ Confirmations = 0 => HashAt(head'.block) = head'.hash
                  /\ Reading' => HashAt(target'.block) = target'.hash
  PROVE  ChainOrderly' /\ Settled'
<1>1. /\ chain' = chain /\ hashes' = hashes /\ deep' = deep /\ Height' = Height
      /\ cursor' = cursor /\ events' = events /\ addresses' = addresses
      /\ \A n : HashAt(n)' = HashAt(n)
  BY BlocksKept DEF db
<1>2. ChainOrderly'
  BY <1>1 DEF IInv, ChainOrderly
<1>3. Known(1..cursor.block, addresses) => Known(1..cursor.block, addresses)'
  BY <1>1 DEF Known
<1>4. Placed => Placed'
  BY <1>1 DEF Placed
<1>5. /\ HashAt(head'.block) = head'.hash => Stands(head)'
      /\ HashAt(target'.block) = target'.hash => Stands(target)'
  BY <1>1 DEF Stands, HashAt
<1> QED
  BY <1>1, <1>2, <1>3, <1>4, <1>5 DEF IInv, Settled

\* The logs of some blocks and those of one block more.
LEMMA LogsOfMore ==
  ASSUME NEW bs, NEW n, NEW scope
  PROVE  LogsOfAll(bs \cup {n}, scope) = LogsOfAll(bs, scope) \cup LogsOf(n, scope)
BY DEF LogsOfAll

\* Reading for two sets of addresses is reading for both.
LEMMA LogsOfBoth ==
  ASSUME NEW bs, NEW scope, NEW more
  PROVE  LogsOfAll(bs, scope \cup more) = LogsOfAll(bs, scope) \cup LogsOfAll(bs, more)
<1>1. ASSUME NEW n PROVE LogsOf(n, scope \cup more) = LogsOf(n, scope) \cup LogsOf(n, more)
  BY DEF LogsOf
<1>2. ASSUME NEW l
      PROVE  l \in LogsOfAll(bs, scope \cup more) <=> l \in LogsOfAll(bs, scope) \/ l \in LogsOfAll(bs, more)
  <2>1. \A s : l \in LogsOfAll(bs, s) <=> \E n \in bs : l \in LogsOf(n, s)
    BY DEF LogsOfAll
  <2>2. \A n : l \in LogsOf(n, scope \cup more) <=> l \in LogsOf(n, scope) \/ l \in LogsOf(n, more)
    BY <1>1
  <2> QED
    BY <2>1, <2>2, Zenon
<1> QED
  BY <1>2

\* The scan starts.
LEMMA BeginKeeps == IInv /\ Begin => ChainOrderly' /\ ScanInRange' /\ ScanReads' /\ Settled'
<1> SUFFICES ASSUME IInv, Begin PROVE ChainOrderly' /\ ScanInRange' /\ ScanReads' /\ Settled'
  OBVIOUS
<1>1. PICK n \in Greatest(1, Height - MaxLag)..Height : head' = [block |-> n, hash |-> HashAt(n)]
  BY DEF Begin
<1>2. /\ n \in 1..Height /\ HashAt(n) \in 1..hashes
  <2>1. n \in 1..Height
    BY <1>1, ScanNumbers, DepthAssumption DEF Greatest
  <2>2. HashAt(n) = chain[n].hash /\ chain[n].hash \in 1..MaxHashes
    BY <2>1, ScanNumbers, BlocksTyped DEF HashAt
  <2>3. chain[n].hash <= hashes
    BY <2>1 DEF IInv, ChainOrderly
  <2> QED
    BY <2>1, <2>2, <2>3, ScanNumbers
<1>3. /\ pc = "idle" /\ pc' = "cursor" /\ ~Reading' /\ logs' = logs
      /\ UNCHANGED <<blocks, db>> /\ cursor' = cursor /\ Height' = Height /\ hashes' = hashes
  BY BlocksKept DEF Begin, Reading, db
<1>4. ChainOrderly' /\ Settled'
  BY <1>1, <1>3, SettledKept
<1>5. ScanInRange'
  BY <1>1, <1>2, <1>3 DEF IInv, ScanInRange
<1>6. ScanReads'
  BY <1>3 DEF IInv, ScanReads
<1> QED
  BY <1>4, <1>5, <1>6

\* The cursor is checked.
LEMMA CheckCursorKeeps == IInv /\ CheckCursor => ChainOrderly' /\ ScanInRange' /\ ScanReads' /\ Settled'
<1> SUFFICES ASSUME IInv, CheckCursor PROVE ChainOrderly' /\ ScanInRange' /\ ScanReads' /\ Settled'
  OBVIOUS
<1>1. CASE CursorValid
  <2>1. /\ pc = "cursor" /\ pc' = "range" /\ ~Reading' /\ logs' = logs /\ head' = head
        /\ UNCHANGED <<blocks, db>> /\ cursor' = cursor /\ Height' = Height /\ hashes' = hashes
    BY <1>1, BlocksKept DEF CheckCursor, Reading, db
  <2>2. ChainOrderly' /\ Settled'
    BY <2>1, SettledKept DEF IInv, Settled, Stands
  <2>3. ScanInRange' /\ ScanReads'
    BY <2>1 DEF IInv, ScanInRange, ScanReads
  <2> QED
    BY <2>2, <2>3
<1>2. CASE ~CursorValid
  BY <1>2, EndKeeps DEF CheckCursor
<1> QED
  BY <1>1, <1>2

\* The last block of the range is read.
LEMMA ReadTargetKeeps == IInv /\ ReadTarget => ChainOrderly' /\ ScanInRange' /\ ScanReads' /\ Settled'
<1> SUFFICES ASSUME IInv, ReadTarget PROVE ChainOrderly' /\ ScanInRange' /\ ScanReads' /\ Settled'
  OBVIOUS
<1>0. /\ TypeOK /\ Height \in Nat /\ hashes \in Nat /\ Confirmations \in Nat
      /\ head.block \in 1..Height /\ head.hash \in 1..hashes /\ From \in Nat \ {0}
  BY ScanNumbers DEF IInv, ScanInRange, ReadTarget
<1>1. /\ pc = "range" /\ pc' = "logs" /\ Reading' /\ logs' = logs /\ head' = head
      /\ unread' = From..ScanTo /\ From <= ScanTo
      /\ UNCHANGED <<blocks, db>> /\ cursor' = cursor /\ Height' = Height /\ hashes' = hashes
  BY BlocksKept DEF ReadTarget, Reading, db
<1>2. ScanTo \in Nat /\ ScanTo + Confirmations <= head.block
  BY <1>0, <1>1, DepthAssumption DEF ScanTo, Confirmed, Least, Greatest
<1>3. target'.block = ScanTo /\ target'.hash \in 1..hashes /\ (~deep => HashAt(ScanTo) = target'.hash)
  <2>1. CASE ScanTo = head.block /\ target' = head
    <3>1. Confirmations = 0
      BY <1>0, <1>2, <2>1
    <3>2. ~deep => Stands(head)
      BY <1>1, <3>1 DEF IInv, Settled
    <3> QED
      BY <1>0, <2>1, <3>2 DEF Stands
  <2>2. CASE ScanTo <= Height /\ target' = [block |-> ScanTo, hash |-> HashAt(ScanTo)]
    <3>1. ScanTo \in 1..Height
      BY <1>0, <1>1, <1>2, <2>2
    <3>2. HashAt(ScanTo) \in 1..MaxHashes /\ HashAt(ScanTo) <= hashes
      BY <1>0, <3>1, HashTyped DEF IInv, ChainOrderly
    <3> QED
      BY <1>0, <2>2, <3>2
  <2> QED
    BY <2>1, <2>2 DEF ReadTarget
<1>4. ChainOrderly' /\ Settled'
  <2>1. ~deep => HashAt(target'.block) = target'.hash
    BY <1>3
  <2>2. ~deep /\ Confirmations = 0 => HashAt(head'.block) = head'.hash
    BY <1>1 DEF IInv, Settled, Stands
  <2> QED
    BY <1>1, <2>1, <2>2, SettledKept
<1>5. From' = From /\ (From..target.block)' = From..ScanTo
  BY <1>1, <1>3 DEF From
<1>6. ScanInRange'
  BY <1>0, <1>1, <1>2, <1>3, <1>5 DEF IInv, ScanInRange
<1>7. ScanReads'
  <2>1. logs' = {}
    BY <1>1 DEF IInv, ScanReads
  <2>2. ((From..target.block) \ unread)' = {}
    BY <1>1, <1>5
  <2>3. LogsOfAll((From..target.block) \ unread, Scope)' = {}
    BY <2>2 DEF LogsOfAll
  <2> QED
    BY <1>1, <2>1, <2>3 DEF ScanReads
<1> QED
  BY <1>4, <1>6, <1>7

\* The logs of a block of the range are read, for the known addresses.
LEMMA ReadLogsKeeps == IInv /\ ReadLogs => ChainOrderly' /\ ScanInRange' /\ ScanReads' /\ Settled'
<1> SUFFICES ASSUME IInv, ReadLogs PROVE ChainOrderly' /\ ScanInRange' /\ ScanReads' /\ Settled'
  OBVIOUS
<1>1. PICK n \in unread : logs' = logs \cup LogsOf(n, Scope) /\ unread' = unread \ {n}
  BY DEF ReadLogs
<1>2. /\ pc = "logs" /\ pc' = "logs" /\ Reading /\ Reading' /\ head' = head /\ target' = target
      /\ UNCHANGED <<blocks, db>> /\ cursor' = cursor /\ addresses' = addresses
      /\ Height' = Height /\ hashes' = hashes /\ \A m : HashAt(m)' = HashAt(m)
  BY BlocksKept DEF ReadLogs, Reading, db
<1>3. ChainOrderly' /\ Settled'
  BY <1>2, SettledKept DEF IInv, Settled, Stands
<1>4. From' = From /\ Scope' = Scope /\ (From..target.block)' = From..target.block
  BY <1>2 DEF From, Scope
<1>5. ScanInRange'
  BY <1>1, <1>2, <1>4 DEF IInv, ScanInRange
<1>6. ScanReads'
  <2> DEFINE R == From..target.block
  <2>1. R \ unread' = (R \ unread) \cup {n}
    BY <1>1, <1>2 DEF IInv, ScanInRange
  <2>2. Stands(target)' => Stands(target)
    BY <1>2 DEF Stands
  <2>3. ASSUME Stands(target)' PROVE logs' = LogsOfAll(R \ unread', Scope)
    <3>1. logs = LogsOfAll(R \ unread, Scope)
      BY <1>2, <2>2, <2>3 DEF IInv, ScanReads
    <3>2. LogsOfAll((R \ unread) \cup {n}, Scope) = LogsOfAll(R \ unread, Scope) \cup LogsOf(n, Scope)
      BY LogsOfMore
    <3> QED
      BY <1>1, <2>1, <3>1, <3>2
  <2>4. LogsOfAll((From..target.block) \ unread, Scope)' = LogsOfAll(R \ unread', Scope)
    <3>1. \A m : LogsOf(m, Scope)' = LogsOf(m, Scope)
      BY <1>2, <1>4 DEF LogsOf, blocks
    <3> QED
      BY <1>4, <3>1 DEF LogsOfAll
  <2> HIDE DEF R
  <2> QED
    BY <1>2, <2>3, <2>4 DEF ScanReads
<1> QED
  BY <1>3, <1>5, <1>6

\* The factory's logs of the range announce its vaults.
LEMMA AnnouncedKnown ==
  ASSUME IInv, pc = "logs", unread = {}, Stands(target)
  PROVE  /\ logs = LogsOfAll(From..target.block, Scope)
         /\ Known(From..target.block, addresses \cup (Announced \ addresses))
<1>1. Reading /\ (From..target.block) \ unread = From..target.block
  BY DEF Reading
<1>2. logs = LogsOfAll(From..target.block, Scope)
  <2>1. logs = LogsOfAll((From..target.block) \ unread, Scope)
    BY <1>1 DEF IInv, ScanReads
  <2> QED
    BY <1>1, <2>1
<1>3. ASSUME NEW n \in From..target.block, NEW u \in chain[n].txs, Emitter[u] = Factory, Creates[u] \in Vaults
      PROVE  Creates[u] \in addresses \cup (Announced \ addresses)
  <2> DEFINE l == [tx |-> u, block |-> n, hash |-> chain[n].hash]
  <2>1. n \in 1..Height
    BY <1>1, ScanNumbers
  <2>2. l \in LogsOf(n, Scope)
    BY <1>3, <2>1, LogIn DEF Scope
  <2>3. l \in logs /\ l.tx = u
    BY <1>2, <2>2 DEF LogsOfAll
  <2> HIDE DEF l
  <2>4. Creates[u] \in Announced
    BY <1>3, <2>3, TxAssumption DEF Announced
  <2> QED
    BY <2>4
<1> QED
  BY <1>2, <1>3 DEF Known

\* The new vaults are taken from what was read.
LEMMA DiscoverVaultsKeeps == IInv /\ DiscoverVaults => ChainOrderly' /\ ScanInRange' /\ ScanReads' /\ Settled'
<1> SUFFICES ASSUME IInv, DiscoverVaults PROVE ChainOrderly' /\ ScanInRange' /\ ScanReads' /\ Settled'
  OBVIOUS
<1>1. /\ pc = "logs" /\ pc' \in {"check", "newlogs"} /\ Reading /\ Reading' /\ unread = {}
      /\ head' = head /\ target' = target /\ logs' = logs /\ fresh' = Announced \ addresses
      /\ UNCHANGED <<blocks, db>> /\ cursor' = cursor /\ addresses' = addresses
      /\ Height' = Height /\ hashes' = hashes /\ chain' = chain /\ \A m : HashAt(m)' = HashAt(m)
  BY BlocksKept DEF DiscoverVaults, Reading, db
<1>2. pc' = "check" => fresh' = {} /\ unread' = {}
  BY <1>1 DEF DiscoverVaults
<1>3. pc' = "newlogs" => unread' = From..target.block
  BY <1>1 DEF DiscoverVaults
<1>4. ChainOrderly' /\ Settled'
  BY <1>1, SettledKept DEF IInv, Settled, Stands
<1>5. From' = From /\ Scope' = Scope /\ (From..target.block)' = From..target.block
  BY <1>1 DEF From, Scope
<1>6. ScanInRange'
  BY <1>1, <1>2, <1>3, <1>5 DEF IInv, ScanInRange
<1>7. ScanReads'
  <2> DEFINE R == From..target.block
  <2>1. Stands(target)' => Stands(target)
    BY <1>1 DEF Stands
  <2>3. ASSUME Stands(target)'
        PROVE  /\ logs' = LogsOfAll(R, Scope) /\ Known(R, addresses \cup fresh')
    BY <1>1, <2>1, <2>3, AnnouncedKnown
  <2>4. Known(R, addresses \cup fresh') => Known(From..target.block, addresses \cup fresh)'
    BY <1>1, <1>5 DEF Known
  <2>5. LogsOfAll(From..target.block, Scope)' = LogsOfAll(R, Scope)
    <3>1. \A m : LogsOf(m, Scope)' = LogsOf(m, Scope)
      BY <1>1, <1>5 DEF LogsOf
    <3> QED
      BY <1>5, <3>1 DEF LogsOfAll
  <2>6. pc' = "check" => LogsOfAll(From..target.block, Scope \cup fresh)' = LogsOfAll(R, Scope)
    <3> SUFFICES ASSUME pc' = "check"
                 PROVE  LogsOfAll(From..target.block, Scope \cup fresh)' = LogsOfAll(R, Scope)
      OBVIOUS
    <3>1. (Scope \cup fresh)' = Scope
      BY <1>2, <1>5
    <3>2. \A m : LogsOf(m, Scope \cup fresh)' = LogsOf(m, Scope)
      BY <1>1, <3>1 DEF LogsOf
    <3> QED
      BY <1>5, <3>2 DEF LogsOfAll
  <2>7. pc' = "newlogs" => LogsOfAll((From..target.block) \ unread, fresh)' = {}
    <3>1. pc' = "newlogs" => ((From..target.block) \ unread)' = {}
      BY <1>3, <1>5
    <3> QED
      BY <3>1 DEF LogsOfAll
  <2> HIDE DEF R
  <2> QED
    BY <1>1, <2>3, <2>4, <2>5, <2>6, <2>7 DEF ScanReads
<1> QED
  BY <1>4, <1>6, <1>7

\* The logs of a block of the range are read, for the new vaults.
LEMMA ReadNewLogsKeeps == IInv /\ ReadNewLogs => ChainOrderly' /\ ScanInRange' /\ ScanReads' /\ Settled'
<1> SUFFICES ASSUME IInv, ReadNewLogs PROVE ChainOrderly' /\ ScanInRange' /\ ScanReads' /\ Settled'
  OBVIOUS
<1>1. PICK n \in unread : /\ logs' = logs \cup LogsOf(n, fresh) /\ unread' = unread \ {n}
                          /\ pc' = IF unread' = {} THEN "check" ELSE pc
  BY DEF ReadNewLogs
<1>2. /\ pc = "newlogs" /\ pc' \in {"newlogs", "check"} /\ Reading /\ Reading' /\ head' = head /\ target' = target
      /\ UNCHANGED <<blocks, db>> /\ cursor' = cursor /\ addresses' = addresses /\ fresh' = fresh
      /\ Height' = Height /\ hashes' = hashes /\ chain' = chain /\ \A m : HashAt(m)' = HashAt(m)
  BY <1>1, BlocksKept DEF ReadNewLogs, Reading, db
<1>3. ChainOrderly' /\ Settled'
  BY <1>2, SettledKept DEF IInv, Settled, Stands
<1>4. From' = From /\ Scope' = Scope /\ (From..target.block)' = From..target.block
  BY <1>2 DEF From, Scope
<1>5. ScanInRange'
  BY <1>1, <1>2, <1>4 DEF IInv, ScanInRange
<1>6. ScanReads'
  <2> DEFINE R == From..target.block
  <2>1. R \ unread' = (R \ unread) \cup {n}
    BY <1>1, <1>2 DEF IInv, ScanInRange
  <2>2. Stands(target)' => Stands(target)
    BY <1>2 DEF Stands
  <2>3. ASSUME Stands(target)'
        PROVE  /\ logs' = LogsOfAll(R, Scope) \cup LogsOfAll(R \ unread', fresh)
               /\ Known(R, addresses \cup fresh)
    <3>1. /\ logs = LogsOfAll(R, Scope) \cup LogsOfAll(R \ unread, fresh)
          /\ Known(R, addresses \cup fresh)
      BY <1>2, <2>2, <2>3 DEF IInv, ScanReads
    <3>2. LogsOfAll((R \ unread) \cup {n}, fresh) = LogsOfAll(R \ unread, fresh) \cup LogsOf(n, fresh)
      BY LogsOfMore
    <3> QED
      BY <1>1, <2>1, <3>1, <3>2
  <2>4. pc' = "check" => LogsOfAll(R, Scope) \cup LogsOfAll(R \ unread', fresh) = LogsOfAll(R, Scope \cup fresh)
    <3>1. pc' = "check" => R \ unread' = R
      BY <1>1, <1>2
    <3>2. LogsOfAll(R, Scope \cup fresh) = LogsOfAll(R, Scope) \cup LogsOfAll(R, fresh)
      BY LogsOfBoth
    <3> QED
      BY <3>1, <3>2
  <2>5. Known(R, addresses \cup fresh) => Known(From..target.block, addresses \cup fresh)'
    BY <1>2, <1>4 DEF Known
  <2>6. /\ LogsOfAll(From..target.block, Scope)' = LogsOfAll(R, Scope)
        /\ LogsOfAll((From..target.block) \ unread, fresh)' = LogsOfAll(R \ unread', fresh)
        /\ LogsOfAll(From..target.block, Scope \cup fresh)' = LogsOfAll(R, Scope \cup fresh)
    <3>1. \A m : /\ LogsOf(m, Scope)' = LogsOf(m, Scope)
                 /\ LogsOf(m, fresh)' = LogsOf(m, fresh)
                 /\ LogsOf(m, Scope \cup fresh)' = LogsOf(m, Scope \cup fresh)
      BY <1>2, <1>4 DEF LogsOf
    <3> QED
      BY <1>4, <3>1, ZenonT(40) DEF LogsOfAll
  <2> HIDE DEF R
  <2> QED
    BY <1>2, <2>3, <2>4, <2>5, <2>6 DEF ScanReads
<1> QED
  BY <1>3, <1>5, <1>6

\* What was read of the range, block by block, while the target stands.
LEMMA LogsOfRange ==
  ASSUME IInv, pc \in {"check", "commit"}, Stands(target)
  PROVE  /\ \A l \in logs : \E n \in From..target.block : \E t \in chain[n].txs :
              n \in 1..Height /\ l = [tx |-> t, block |-> n, hash |-> chain[n].hash]
         /\ \A n \in From..target.block : \A t \in chain[n].txs :
              Emitter[t] \in Scope \cup fresh => [tx |-> t, block |-> n, hash |-> chain[n].hash] \in logs
<1>1. logs = LogsOfAll(From..target.block, Scope \cup fresh)
  BY DEF IInv, ScanReads, Reading
<1>2. \A n \in From..target.block : n \in 1..Height
  BY ScanNumbers DEF Reading
<1>3. ASSUME NEW l \in logs
      PROVE  \E n \in From..target.block : \E t \in chain[n].txs :
               n \in 1..Height /\ l = [tx |-> t, block |-> n, hash |-> chain[n].hash]
  <2>1. PICK n \in From..target.block : l \in LogsOf(n, Scope \cup fresh)
    BY <1>1 DEF LogsOfAll
  <2> QED
    BY <1>2, <2>1, LogIn
<1>4. ASSUME NEW n \in From..target.block, NEW t \in chain[n].txs, Emitter[t] \in Scope \cup fresh
      PROVE  [tx |-> t, block |-> n, hash |-> chain[n].hash] \in logs
  <2>1. [tx |-> t, block |-> n, hash |-> chain[n].hash] \in LogsOf(n, Scope \cup fresh)
    BY <1>2, <1>4, LogIn
  <2> QED
    BY <1>1, <2>1 DEF LogsOfAll
<1> QED
  BY <1>3, <1>4

\* The target is checked.
LEMMA CheckTargetKeeps == IInv /\ CheckTarget => ChainOrderly' /\ ScanInRange' /\ ScanReads' /\ Settled'
<1> SUFFICES ASSUME IInv, CheckTarget PROVE ChainOrderly' /\ ScanInRange' /\ ScanReads' /\ Settled'
  OBVIOUS
<1>1. CASE TargetStands /\ LogsFit
  <2>1. /\ pc = "check" /\ pc' = "commit" /\ Reading /\ Reading' /\ head' = head /\ target' = target
        /\ unread' = unread /\ logs' = logs /\ fresh' = fresh
        /\ UNCHANGED <<blocks, db>> /\ cursor' = cursor /\ addresses' = addresses
        /\ Height' = Height /\ hashes' = hashes /\ chain' = chain /\ \A m : HashAt(m)' = HashAt(m)
    BY <1>1, BlocksKept DEF CheckTarget, Reading, db
  <2>2. ChainOrderly' /\ Settled'
    BY <2>1, SettledKept DEF IInv, Settled, Stands
  <2>3. From' = From /\ Scope' = Scope /\ (From..target.block)' = From..target.block
    BY <2>1 DEF From, Scope
  <2>4. ScanInRange'
    BY <2>1, <2>3 DEF IInv, ScanInRange
  <2>5. Stands(target)
    BY <1>1 DEF TargetStands, Stands
  <2>6. ASSUME NEW l \in logs PROVE l.hash <= target.hash
    <3>1. PICK n \in From..target.block : n \in 1..Height /\ l.hash = chain[n].hash
      BY <2>1, <2>5, LogsOfRange
    <3>2. target.block \in 1..Height /\ target.hash = chain[target.block].hash
      <4>1. target.block \in 1..Height
        BY <2>1, <3>1, ScanNumbers
      <4> QED
        BY <2>5, <4>1 DEF Stands, HashAt
    <3>3. n <= target.block /\ chain[n].hash \in Nat /\ chain[target.block].hash \in Nat
      <4>1. chain[n] \in Block /\ chain[target.block] \in Block
        BY <3>1, <3>2, BlocksTyped, ScanNumbers
      <4> QED
        BY <3>1, <4>1, ScanNumbers DEF Block
    <3>4. CASE n = target.block
      BY <3>1, <3>2, <3>3, <3>4
    <3>5. CASE n < target.block
      <4>1. chain[n].hash < chain[target.block].hash
        BY <3>1, <3>2, <3>5 DEF IInv, ChainOrderly, Orderly, Height
      <4> QED
        BY <3>1, <3>2, <3>3, <4>1
    <3> QED
      BY <3>1, <3>3, <3>4, <3>5, ScanNumbers
  <2>7. /\ logs = LogsOfAll(From..target.block, Scope \cup fresh)
        /\ Known(From..target.block, addresses \cup fresh)
    BY <2>1, <2>5 DEF IInv, ScanReads
  <2>8. LogsOfAll(From..target.block, Scope \cup fresh)' = LogsOfAll(From..target.block, Scope \cup fresh)
    <3>1. \A m : LogsOf(m, Scope \cup fresh)' = LogsOf(m, Scope \cup fresh)
      BY <2>1, <2>3 DEF LogsOf
    <3> QED
      BY <2>3, <3>1 DEF LogsOfAll
  <2>9. Known(From..target.block, addresses \cup fresh)'
    BY <2>1, <2>3, <2>7 DEF Known
  <2>10. ScanReads'
    BY <2>1, <2>6, <2>7, <2>8, <2>9 DEF ScanReads
  <2> QED
    BY <2>2, <2>4, <2>10
<1>2. CASE ~(TargetStands /\ LogsFit)
  BY <1>2, EndKeeps DEF CheckTarget
<1> QED
  BY <1>1, <1>2

\* A transaction is in one block.
LEMMA BlockOfTx ==
  ASSUME ChainOrderly, NEW m \in 1..Height, NEW n \in 1..Height, NEW t \in chain[m].txs, t \in chain[n].txs
  PROVE  m = n
<1>1. ~(m < n) /\ ~(n < m)
  BY DEF ChainOrderly, Orderly, Height
<1> QED
  BY <1>1

\* While the target stands, what is recorded at the commit is the chain up to the target.
LEMMA CommitPlaces ==
  ASSUME IInv, pc = "commit", Stands(target), Placed, Known(1..cursor.block, addresses)
  PROVE  /\ Known(1..target.block, addresses \cup fresh)
         /\ \A t \in Txs :
              /\ \A n \in 1..target.block : t \in chain[n].txs => Recorded[t] = [block |-> n, hash |-> chain[n].hash]
              /\ (\A n \in 1..target.block : t \notin chain[n].txs) => Recorded[t] = NoBlock
<1>0. /\ Reading /\ TypeOK /\ Height \in Nat /\ cursor.block \in Nat /\ target.block \in Nat
      /\ From = cursor.block + 1 /\ From <= target.block /\ target.block <= Height
  BY ScanNumbers DEF Reading, IInv, ScanInRange
<1>1. \A n \in 1..target.block : n \in 1..Height /\ (n \in 1..cursor.block \/ n \in From..target.block)
  BY <1>0
<1>2. \A n \in 1..cursor.block : n \in 1..target.block
  BY <1>0
<1>3. Known(From..target.block, addresses \cup fresh)
  BY <1>0 DEF IInv, ScanReads
<1>4. Known(1..target.block, addresses \cup fresh)
  BY <1>1, <1>3 DEF Known
<1>5. ASSUME NEW t \in Txs, NEW n \in 1..target.block, t \in chain[n].txs
      PROVE  Recorded[t] = [block |-> n, hash |-> chain[n].hash]
  <2>1. CASE n \in 1..cursor.block
    <3>1. events[t] = [block |-> n, hash |-> chain[n].hash]
      BY <1>5, <2>1 DEF Placed
    <3>2. events[t] # NoBlock
      BY <2>1, <3>1 DEF NoBlock
    <3> QED
      BY <3>1, <3>2 DEF Recorded
  <2>2. CASE n \in From..target.block
    <3>1. \A m \in 1..cursor.block : t \notin chain[m].txs
      <4> SUFFICES ASSUME NEW m \in 1..cursor.block, t \in chain[m].txs PROVE FALSE
        OBVIOUS
      <4>1. m = n
        BY <1>1, <1>2, <1>5, BlockOfTx DEF IInv
      <4> QED
        BY <1>0, <2>2, <4>1
    <3>2. events[t] = NoBlock
      BY <3>1 DEF Placed
    <3>3. Emitter[t] \in Scope \cup fresh
      <4>1. CASE Emitter[t] = Factory
        BY <4>1 DEF Scope
      <4>2. CASE Emitter[t] \in Vaults
        <5>1. PICK j \in 1..n : \E u \in chain[j].txs : Emitter[u] = Factory /\ Creates[u] = Emitter[t]
          BY <1>1, <1>5, <4>2 DEF IInv, ChainOrderly, Orderly, Height
        <5>2. j \in 1..target.block
          BY <1>0, <5>1
        <5> QED
          BY <1>4, <4>2, <5>1, <5>2 DEF Known, Scope
      <4> QED
        BY <4>1, <4>2, TxAssumption
    <3> DEFINE l == [tx |-> t, block |-> n, hash |-> chain[n].hash]
    <3>4. l \in logs /\ l.tx = t
      BY <1>5, <2>2, <3>3, LogsOfRange
    <3>5. ASSUME NEW k \in logs, k.tx = t PROVE k.block = n /\ k.hash = chain[n].hash
      <4>1. PICK m \in From..target.block : \E u \in chain[m].txs :
              m \in 1..Height /\ k = [tx |-> u, block |-> m, hash |-> chain[m].hash]
        BY LogsOfRange
      <4>2. t \in chain[m].txs /\ m \in 1..Height /\ k.block = m /\ k.hash = chain[m].hash
        BY <3>5, <4>1
      <4>3. m = n
        BY <1>1, <1>5, <4>2, BlockOfTx DEF IInv
      <4> QED
        BY <4>2, <4>3
    <3> HIDE DEF l
    <3> DEFINE chosen == CHOOSE k \in logs : k.tx = t
    <3>6. chosen \in logs /\ chosen.tx = t
      BY <3>4
    <3>7. Recorded[t] = [block |-> chosen.block, hash |-> chosen.hash]
      <4>1. events[t] = NoBlock /\ \E k \in logs : k.tx = t
        BY <3>2, <3>4
      <4> QED
        BY <4>1 DEF Recorded
    <3> HIDE DEF chosen
    <3> QED
      BY <3>5, <3>6, <3>7
  <2> QED
    BY <1>1, <2>1, <2>2
<1>6. ASSUME NEW t \in Txs, \A n \in 1..target.block : t \notin chain[n].txs
      PROVE  Recorded[t] = NoBlock
  <2>1. events[t] = NoBlock
    BY <1>2, <1>6 DEF Placed
  <2>2. ~\E l \in logs : l.tx = t
    <3> SUFFICES ASSUME NEW l \in logs, l.tx = t PROVE FALSE
      OBVIOUS
    <3>1. PICK n \in From..target.block : \E u \in chain[n].txs :
            l = [tx |-> u, block |-> n, hash |-> chain[n].hash]
      BY LogsOfRange
    <3>2. t \in chain[n].txs /\ n \in 1..target.block
      BY <1>0, <3>1
    <3> QED
      BY <1>6, <3>2
  <2> QED
    BY <2>1, <2>2 DEF Recorded
<1> QED
  BY <1>4, <1>5, <1>6

\* The scan is committed.
LEMMA CommitKeeps == IInv /\ Commit => ChainOrderly' /\ ScanInRange' /\ ScanReads' /\ Settled'
<1> SUFFICES ASSUME IInv, Commit PROVE ChainOrderly' /\ ScanInRange' /\ ScanReads' /\ Settled'
  OBVIOUS
<1>1. /\ pc = "commit" /\ Reading /\ pc' = "idle" /\ ~Reading' /\ logs' = {}
      /\ cursor' = target /\ events' = Recorded /\ addresses' = addresses \cup fresh
      /\ chain' = chain /\ hashes' = hashes /\ deep' = deep /\ Height' = Height
  BY BlocksKept DEF Commit, EndScan, Reading
<1>2. ChainOrderly' /\ ScanReads'
  BY <1>1 DEF IInv, ChainOrderly, ScanReads
<1>3. ScanInRange'
  BY <1>1, ScanNumbers DEF ScanInRange
<1>4. Settled'
  <2> SUFFICES ASSUME ~deep PROVE Known(1..cursor.block, addresses)' /\ Placed'
    BY <1>1 DEF Settled
  <2>1. Stands(target) /\ Placed /\ Known(1..cursor.block, addresses)
    BY <1>1 DEF IInv, Settled
  <2>2. /\ Known(1..target.block, addresses \cup fresh)
        /\ \A t \in Txs :
             /\ \A n \in 1..target.block : t \in chain[n].txs => Recorded[t] = [block |-> n, hash |-> chain[n].hash]
             /\ (\A n \in 1..target.block : t \notin chain[n].txs) => Recorded[t] = NoBlock
    BY <1>1, <2>1, CommitPlaces
  <2>3. Known(1..cursor.block, addresses)'
    BY <1>1, <2>2 DEF Known
  <2>4. Placed'
    BY <1>1, <2>2 DEF Placed
  <2> QED
    BY <2>3, <2>4
<1> QED
  BY <1>2, <1>3, <1>4

-----------------------------------------------------------------------------
(* The invariant                                                           *)

\* It holds before the first scan.
LEMMA IInvInit == Init => IInv
<1> SUFFICES ASSUME Init PROVE IInv
  OBVIOUS
<1>1. TypeOK
  BY TypeInit
<1>2. /\ chain = <<>> /\ Height = 0 /\ cursor.block = 0 /\ pc = "idle" /\ ~Reading /\ logs = {}
  BY DEF Init, Height, NoBlock, Reading
<1>3. 1..Height = {} /\ 1..Len(chain) = {} /\ 1..cursor.block = {}
  BY <1>2 DEF Height
<1>4. ChainOrderly
  BY <1>3 DEF ChainOrderly, Orderly
<1>5. ScanInRange /\ ScanReads
  BY <1>2 DEF ScanInRange, ScanReads
<1>6. \A t \in Txs : events[t] = NoBlock
  BY DEF Init
<1>7. Settled
  BY <1>2, <1>3, <1>6 DEF Settled, Known, Placed
<1> QED
  BY <1>1, <1>4, <1>5, <1>7 DEF IInv

\* Every step keeps it.
LEMMA IInvStep == IInv /\ [Next]_vars => IInv'
<1> SUFFICES ASSUME IInv, [Next]_vars PROVE IInv'
  OBVIOUS
<1>0. TypeOK /\ ChainOrderly
  BY DEF IInv
<1>1. CASE MineBlock \/ Reorg
  BY <1>0, <1>1, ChainSteps, ChainKeeps DEF IInv
<1>2. CASE ScanStep \/ Crash
  <2>1. TypeOK'
    BY <1>0, <1>2, TypeScan
  <2>2. CASE NothingToScan \/ Crash
    <3>1. EndScan /\ UNCHANGED <<blocks, db>>
      BY <2>2 DEF NothingToScan, Crash
    <3> QED
      BY <2>1, <3>1, EndKeeps DEF IInv
  <2>3. CASE Begin \/ CheckCursor \/ ReadTarget \/ ReadLogs
    BY <2>1, <2>3, BeginKeeps, CheckCursorKeeps, ReadTargetKeeps, ReadLogsKeeps DEF IInv
  <2>4. CASE DiscoverVaults \/ ReadNewLogs \/ CheckTarget \/ Commit
    BY <2>1, <2>4, DiscoverVaultsKeeps, ReadNewLogsKeeps, CheckTargetKeeps, CommitKeeps DEF IInv
  <2> QED
    BY <1>2, <2>2, <2>3, <2>4 DEF ScanStep
<1>3. CASE UNCHANGED vars
  <2>1. UNCHANGED <<blocks, db, scan>>
    BY <1>3 DEF vars
  <2>2. TypeOK'
    BY <1>0, <2>1 DEF TypeOK, blocks, db, scan, Height
  <2>3. ~deep => /\ pc' # "idle" /\ Confirmations = 0 => HashAt(head'.block) = head'.hash
                 /\ Reading' => HashAt(target'.block) = target'.hash
    BY <2>1 DEF scan, IInv, Settled, Stands, Reading
  <2>4. ChainOrderly' /\ Settled'
    BY <2>1, <2>3, SettledKept
  <2>5. ScanInRange' /\ ScanReads'
    <3>1. /\ chain' = chain /\ hashes' = hashes /\ cursor' = cursor /\ addresses' = addresses /\ pc' = pc
          /\ head' = head /\ target' = target /\ unread' = unread /\ logs' = logs /\ fresh' = fresh
      BY <2>1 DEF blocks, db, scan
    <3> QED
      BY <3>1 DEF IInv, ScanInRange, ScanReads, Stands, LogsOfAll, LogsOf, Known, HashAt, Height, From, Scope, Reading
  <2> QED
    BY <2>2, <2>4, <2>5 DEF IInv
<1> QED
  BY <1>1, <1>2, <1>3 DEF Next

\* The invariant holds in every reachable state.
LEMMA IInvAlways == Spec => []IInv
BY IInvInit, IInvStep, PTL DEF Spec

\* It is what the index promises.
LEMMA IInvIsExact == IInv => IndexIsExact
<1> SUFFICES ASSUME IInv, ~deep, NEW t \in Txs
             PROVE  events[t] =
                      IF \E n \in 1..Least(cursor.block, Height) : t \in chain[n].txs
                      THEN LET n == CHOOSE i \in 1..Height : t \in chain[i].txs
                           IN  [block |-> n, hash |-> HashAt(n)]
                      ELSE NoBlock
  BY DEF IndexIsExact, IInv
<1>1. Least(cursor.block, Height) = cursor.block /\ cursor.block <= Height
  <2>1. cursor.block <= Height
    BY ScanNumbers DEF IInv, ScanInRange
  <2> QED
    BY <2>1 DEF Least
<1>2. Placed
  BY DEF IInv, Settled
<1>3. CASE \E n \in 1..cursor.block : t \in chain[n].txs
  <2>1. PICK n \in 1..cursor.block : t \in chain[n].txs
    BY <1>3
  <2>2. n \in 1..Height
    BY <1>1, <2>1, ScanNumbers
  <2> DEFINE m == CHOOSE i \in 1..Height : t \in chain[i].txs
  <2>3. m \in 1..Height /\ t \in chain[m].txs
    BY <2>1, <2>2
  <2> HIDE DEF m
  <2>4. m = n
    BY <2>1, <2>2, <2>3, BlockOfTx DEF IInv
  <2>5. events[t] = [block |-> m, hash |-> HashAt(m)]
    BY <1>2, <2>1, <2>3, <2>4 DEF Placed, HashAt
  <2> QED
    BY <1>1, <1>3, <2>5 DEF m
<1>4. CASE ~\E n \in 1..cursor.block : t \in chain[n].txs
  BY <1>1, <1>2, <1>4 DEF Placed
<1> QED
  BY <1>3, <1>4

\* As long as no confirmed block is replaced, the database holds the canonical history up
\* to the cursor, complete and nothing else, whatever is mined, replaced or lost while a
\* scan runs.
THEOREM IndexerExact == Spec => []IndexIsExact
BY IInvAlways, IInvIsExact, PTL

\* A scan commits what one fork holds, however deep the chain was replaced while it read.
THEOREM IndexerReadsOneFork == Spec => []ScanReadsOneFork
<1>1. IInv => ScanReadsOneFork
  <2> SUFFICES ASSUME IInv, pc = "commit"
               PROVE  /\ \A l \in logs : l.hash <= target.hash
                      /\ HashAt(target.block) = target.hash =>
                           logs = UNION {LogsOf(n, Scope \cup fresh) : n \in From..target.block}
    BY DEF ScanReadsOneFork
  <2>1. \A l \in logs : l.hash <= target.hash
    BY DEF IInv, ScanReads
  <2>2. Stands(target) => logs = LogsOfAll(From..target.block, Scope \cup fresh)
    BY DEF IInv, ScanReads, Reading
  <2> QED
    BY <2>1, <2>2 DEF Stands, LogsOfAll
<1> QED
  BY <1>1, IInvAlways, PTL
=============================================================================
