------------------------- MODULE NativeCustodyProofs -------------------------
(***************************************************************************)
(* Proofs about NativeCustody for every set of vaults, markets, pools and  *)
(* requests and every bound: the adapter's books and the vaults' agree,    *)
(* the adapter refuses no recovery, and the vault refuses no answer of the *)
(* adapter.                                                                *)
(***************************************************************************)
EXTENDS NativeCustody, SumTheorems

\* A vault's next recovery nonce is ahead of all it has used.
NoncesSpent == \A v \in Vaults : \A n \in consumed[v] : n <= recoveryCount[v]

\* Nothing is bought before the protocol is configured and the vault registered, and a
\* held position is not marked resolved.
HeldIsAdmitted ==
  /\ enabled => configured
  /\ \A v \in Vaults, m \in Markets :
       positions[v][m].amount > 0 => ~positions[v][m].resolved /\ configured /\ v \in registered

IInv == TypeOK /\ HoldingsMatchVaults /\ NoncesSpent /\ HeldIsAdmitted

-----------------------------------------------------------------------------
\* The initial state satisfies the inductive invariant.
LEMMA InitIInv == Init => IInv
<1> SUFFICES ASSUME Init PROVE IInv
  OBVIOUS
<1>1. TypeOK
  <2>1. holdings \in [Vaults -> [Keys -> HoldingType]]
    BY DEF Init, HoldingType
  <2>2. positions \in [Vaults -> [Markets -> PositionType]]
    BY DEF Init, PositionType
  <2>3. listing \in [Markets -> ListingType]
    BY DEF Init, ListingType
  <2>4. /\ consumed \in [Vaults -> SUBSET Nat] /\ recoveryCount \in [Vaults -> Nat]
        /\ balance \in [Tokens -> Nat] /\ settled \subseteq Tokens /\ registered \subseteq Vaults
        /\ configured \in BOOLEAN /\ enabled \in BOOLEAN
    BY DEF Init
  <2> QED
    BY <2>1, <2>2, <2>3, <2>4 DEF Init, TypeOK
<1>2. HoldingsMatchVaults
  <2> SUFFICES ASSUME NEW v \in Vaults, NEW k \in Keys
               PROVE  holdings[v][k].amount = 0 /\ positions[v][k.market].amount = 0
    BY DEF HoldingsMatchVaults
  <2> k.market \in Markets
    BY DEF Keys
  <2> QED
    BY DEF Init, NoHolding, NoPosition
<1>3. NoncesSpent
  BY DEF Init, NoncesSpent
<1>4. HeldIsAdmitted
  BY DEF Init, HeldIsAdmitted, NoPosition
<1> QED
  BY <1>1, <1>2, <1>3, <1>4 DEF IInv

-----------------------------------------------------------------------------
\* A filled order keeps the inductive invariant: the new tokens enter both books under
\* the same key, and the key of a position that is already held is that one.
LEMMA PlaceBuyIInv ==
  ASSUME IInv, NEW v \in Vaults, NEW m \in Markets, NEW side \in Sides, NEW price \in Prices,
         NEW quantity \in Quantities, PlaceBuy(v, m, side, price, quantity)
  PROVE  IInv'
<1> DEFINE generation == listing[m].generation
           pool == listing[m].pool
           index == OutcomeIndex(side)
           token == <<pool, index>>
           k == Key(m, generation, index)
<1>1. PICK filled \in 0..quantity :
        IF filled = 0
        THEN UNCHANGED <<holdings, positions, balance>>
        ELSE /\ holdings' = [holdings EXCEPT ![v][k] = RecordHolding(@, pool, token, filled)]
             /\ positions' = [positions EXCEPT ![v][m] = AddPosition(@, generation, side, filled)]
             /\ balance' = [balance EXCEPT ![token] = @ + filled]
  BY DEF PlaceBuy
<1>2. /\ UNCHANGED <<configured, enabled, registered, consumed, recoveryCount, listing,
                     settled, donations>>
      /\ trades' = trades + 1
      /\ enabled /\ v \in registered /\ listing[m].trading
      /\ PositionCompatible(positions[v][m], generation, side)
  BY DEF PlaceBuy
<1>3. filled \in Nat
  BY RequestAssumption
<1>4. generation \in Generations /\ pool \in Pools /\ index \in Indices
  BY <1>2 DEF IInv, TypeOK, ListingType, OutcomeIndex, Sides, Indices
<1>5. k \in Keys /\ k.market = m /\ token \in Tokens
  BY <1>4 DEF Key, Keys, Tokens
<1>6. CASE filled = 0
  <2>1. UNCHANGED <<holdings, positions, balance>>
    BY <1>1, <1>6
  <2>2. TypeOK'
    BY <1>2, <2>1 DEF IInv, TypeOK
  <2>3. HoldingsMatchVaults' /\ NoncesSpent' /\ HeldIsAdmitted'
    BY <1>2, <2>1 DEF IInv, HoldingsMatchVaults, NoncesSpent, HeldIsAdmitted, KeyOf
  <2> QED
    BY <2>2, <2>3 DEF IInv
<1>7. CASE filled # 0
  <2> DEFINE holding == RecordHolding(holdings[v][k], pool, token, filled)
             position == AddPosition(positions[v][m], generation, side, filled)
  <2>1. /\ holdings' = [holdings EXCEPT ![v] = [holdings[v] EXCEPT ![k] = holding]]
        /\ positions' = [positions EXCEPT ![v] = [positions[v] EXCEPT ![m] = position]]
        /\ balance' = [balance EXCEPT ![token] = @ + filled]
    BY <1>1, <1>7
  <2>2. holdings[v][k].amount \in Nat /\ positions[v][m].amount \in Nat
    BY <1>5 DEF IInv, TypeOK, HoldingType, NoHolding, PositionType, NoPosition
  <2>3. holding \in HoldingType
    BY <1>3, <1>4, <1>5, <2>2 DEF RecordHolding, HoldingType
  <2>4. position \in PositionType
    BY <1>3, <1>4, <2>2 DEF AddPosition, PositionType
  <2>5. TypeOK'
    <3>1. holdings' \in [Vaults -> [Keys -> HoldingType]]
      BY <1>5, <2>1, <2>3 DEF IInv, TypeOK
    <3>2. positions' \in [Vaults -> [Markets -> PositionType]]
      BY <2>1, <2>4 DEF IInv, TypeOK
    <3>3. balance' \in [Tokens -> Nat]
      <4>1. balance \in [Tokens -> Nat]
        BY DEF IInv, TypeOK
      <4> HIDE DEF token
      <4> QED
        BY <1>3, <1>5, <2>1, <4>1
    <3> QED
      BY <1>2, <3>1, <3>2, <3>3 DEF IInv, TypeOK
  <2>6. HoldingsMatchVaults'
    <3> SUFFICES ASSUME NEW w \in Vaults, NEW j \in Keys
                 PROVE  holdings'[w][j].amount =
                          IF j = KeyOf(w, j.market)' THEN positions'[w][j.market].amount ELSE 0
      BY DEF HoldingsMatchVaults
    <3>1. holdings[w][j].amount =
            IF j = KeyOf(w, j.market) THEN positions[w][j.market].amount ELSE 0
      BY DEF IInv, HoldingsMatchVaults
    <3>2. j.market \in Markets
      BY DEF Keys
    <3>3. CASE w # v \/ j.market # m
      <4>1. positions'[w][j.market] = positions[w][j.market]
        BY <2>1, <3>2, <3>3 DEF IInv, TypeOK
      <4>2. holdings'[w][j] = holdings[w][j]
        BY <1>5, <2>1, <3>3 DEF IInv, TypeOK
      <4>3. KeyOf(w, j.market)' = KeyOf(w, j.market)
        BY <4>1 DEF KeyOf
      <4> QED
        BY <3>1, <4>1, <4>2, <4>3
    <3>4. CASE w = v /\ j.market = m
      <4>1. positions'[v][m] = position
        BY <2>1 DEF IInv, TypeOK
      <4>2. KeyOf(v, m)' = k
        BY <4>1 DEF KeyOf, AddPosition
      <4>3. positions[v][m].amount # 0 => KeyOf(v, m) = k
        BY <1>2 DEF PositionCompatible, KeyOf
      <4>4. CASE j = k
        <5>1. holdings[v][k].amount = positions[v][m].amount
          BY <1>5, <3>1, <3>4, <4>3, <4>4
        <5>2. holdings'[v][k] = holding
          BY <1>5, <2>1 DEF IInv, TypeOK
        <5> QED
          BY <3>4, <4>1, <4>2, <4>4, <5>1, <5>2 DEF RecordHolding, AddPosition
      <4>5. CASE j # k
        <5>1. holdings'[v][j] = holdings[v][j]
          BY <2>1, <4>5 DEF IInv, TypeOK
        <5>2. holdings[v][j].amount = 0
          BY <3>1, <3>4, <4>3, <4>5
        <5> QED
          BY <3>4, <4>2, <4>5, <5>1, <5>2
      <4> QED
        BY <4>4, <4>5
    <3> QED
      BY <3>3, <3>4
  <2>7. NoncesSpent'
    BY <1>2 DEF IInv, NoncesSpent
  <2>8. HeldIsAdmitted'
    <3> SUFFICES ASSUME NEW w \in Vaults, NEW n \in Markets, positions'[w][n].amount > 0
                 PROVE  ~positions'[w][n].resolved /\ configured /\ w \in registered
      BY <1>2 DEF IInv, HeldIsAdmitted
    <3>1. CASE w = v /\ n = m
      BY <1>2, <2>1, <3>1 DEF IInv, TypeOK, HeldIsAdmitted, AddPosition
    <3>2. CASE ~(w = v /\ n = m)
      <4>1. positions'[w][n] = positions[w][n]
        BY <2>1, <3>2 DEF IInv, TypeOK
      <4> QED
        BY <4>1 DEF IInv, HeldIsAdmitted
    <3> QED
      BY <3>1, <3>2
  <2> QED
    BY <2>5, <2>6, <2>7, <2>8 DEF IInv
<1> QED
  BY <1>6, <1>7

\* A recovery keeps the inductive invariant: the position leaves both books.
LEMMA RecoverIInv ==
  ASSUME IInv, NEW v \in Vaults, NEW m \in Markets, Recover(v, m)
  PROVE  IInv'
<1> DEFINE k == KeyOf(v, m)
           token == holdings[v][k].outcomeId
           amount == positions[v][m].amount
           position == [positions[v][m] EXCEPT !.amount = 0, !.resolved = TRUE]
<1>1. /\ amount # 0 /\ AdapterAccepts(v, m)
      /\ token \in settled /\ balance[token] >= amount
      /\ balance' = [balance EXCEPT ![token] = @ - amount]
      /\ holdings' = [holdings EXCEPT ![v] = [holdings[v] EXCEPT ![k] = ClearedHolding(@)]]
      /\ consumed' = [consumed EXCEPT ![v] = @ \cup {NextNonce(v)}]
      /\ recoveryCount' = [recoveryCount EXCEPT ![v] = @ + 1]
      /\ UNCHANGED <<configured, enabled, registered, listing, settled, trades, donations>>
  BY DEF Recover, RecoveryAvailable
<1>2. positions' = [positions EXCEPT ![v] = [positions[v] EXCEPT ![m] = position]]
  BY DEF Recover, IInv, TypeOK, PositionType
<1>3. positions[v][m] \in [generation: Generations, outcomeIndex: Indices, amount: Nat, resolved: BOOLEAN]
  BY <1>1 DEF IInv, TypeOK, PositionType, NoPosition
<1>4. k \in Keys /\ k.market = m
  BY <1>3 DEF KeyOf, Key, Keys
<1>5. position \in PositionType /\ position.amount = 0 /\ amount \in Nat
  BY <1>3 DEF PositionType
<1>6. ClearedHolding(holdings[v][k]) \in HoldingType /\ ClearedHolding(holdings[v][k]).amount = 0
  <2>1. holdings[v][k].amount # 0 /\ holdings[v][k] \in HoldingType
    BY <1>1, <1>4 DEF AdapterAccepts, IInv, TypeOK
  <2>2. holdings[v][k] \in [pool: Pools, outcomeId: Tokens, amount: Nat]
    BY <2>1 DEF HoldingType, NoHolding
  <2> QED
    BY <2>2 DEF HoldingType, ClearedHolding
<1>7. /\ positions'[v][m] = position
      /\ \A w \in Vaults, n \in Markets : ~(w = v /\ n = m) => positions'[w][n] = positions[w][n]
  BY <1>2 DEF IInv, TypeOK
<1>8. /\ holdings'[v][k].amount = 0
      /\ \A w \in Vaults, j \in Keys : ~(w = v /\ j = k) => holdings'[w][j] = holdings[w][j]
  BY <1>1, <1>4, <1>6 DEF IInv, TypeOK
<1>9. TypeOK'
  <2>1. holdings' \in [Vaults -> [Keys -> HoldingType]]
    BY <1>1, <1>4, <1>6 DEF IInv, TypeOK
  <2>2. positions' \in [Vaults -> [Markets -> PositionType]]
    BY <1>2, <1>5 DEF IInv, TypeOK
  <2>3. balance' \in [Tokens -> Nat]
    BY <1>1, <1>5 DEF IInv, TypeOK
  <2>4. consumed' \in [Vaults -> SUBSET Nat] /\ recoveryCount' \in [Vaults -> Nat]
    BY <1>1 DEF IInv, TypeOK, NextNonce
  <2> QED
    BY <1>1, <2>1, <2>2, <2>3, <2>4 DEF IInv, TypeOK
<1>10. HoldingsMatchVaults'
  <2> SUFFICES ASSUME NEW w \in Vaults, NEW j \in Keys
               PROVE  holdings'[w][j].amount =
                        IF j = KeyOf(w, j.market)' THEN positions'[w][j.market].amount ELSE 0
    BY DEF HoldingsMatchVaults
  <2>1. holdings[w][j].amount =
          IF j = KeyOf(w, j.market) THEN positions[w][j.market].amount ELSE 0
    BY DEF IInv, HoldingsMatchVaults
  <2>2. j.market \in Markets
    BY DEF Keys
  <2>3. CASE w = v /\ j.market = m
    <3>1. holdings'[w][j].amount = 0
      BY <1>8, <2>1, <2>3
    <3>2. positions'[w][j.market].amount = 0
      BY <1>5, <1>7, <2>3
    <3> QED
      BY <3>1, <3>2
  <2>4. CASE ~(w = v /\ j.market = m)
    <3>1. positions'[w][j.market] = positions[w][j.market]
      BY <1>7, <2>2, <2>4
    <3>2. holdings'[w][j] = holdings[w][j]
      BY <1>4, <1>8, <2>4
    <3>3. KeyOf(w, j.market)' = KeyOf(w, j.market)
      BY <3>1 DEF KeyOf
    <3> QED
      BY <2>1, <3>1, <3>2, <3>3
  <2> QED
    BY <2>3, <2>4
<1>11. NoncesSpent'
  BY <1>1 DEF IInv, TypeOK, NoncesSpent, NextNonce
<1>12. HeldIsAdmitted'
  <2> SUFFICES ASSUME NEW w \in Vaults, NEW n \in Markets, positions'[w][n].amount > 0
               PROVE  ~positions'[w][n].resolved /\ configured /\ w \in registered
    BY <1>1 DEF IInv, HeldIsAdmitted
  <2>1. ~(w = v /\ n = m)
    <3> HIDE DEF position, amount
    <3> QED
      BY <1>5, <1>7
  <2>2. positions'[w][n] = positions[w][n]
    BY <1>7, <2>1
  <2> QED
    BY <2>2 DEF IInv, HeldIsAdmitted
<1> QED
  BY <1>9, <1>10, <1>11, <1>12 DEF IInv

-----------------------------------------------------------------------------
\* A step of the exchange alone keeps it: the books do not read the exchange's state.
LEMMA ExchangeIInv ==
  ASSUME IInv, UNCHANGED <<adapter, vaults>>, listing' \in [Markets -> ListingType],
         settled' \subseteq Tokens, balance' \in [Tokens -> Nat],
         trades' = trades, donations' \in Nat
  PROVE  IInv'
<1>1. UNCHANGED <<configured, enabled, registered, holdings, consumed, positions, recoveryCount>>
  BY DEF adapter, vaults
<1>2. TypeOK'
  BY <1>1 DEF IInv, TypeOK
<1>3. HoldingsMatchVaults'
  BY <1>1 DEF IInv, HoldingsMatchVaults, KeyOf
<1>4. NoncesSpent'
  BY <1>1 DEF IInv, NoncesSpent
<1>5. HeldIsAdmitted'
  BY <1>1 DEF IInv, HeldIsAdmitted
<1> QED
  BY <1>2, <1>3, <1>4, <1>5 DEF IInv

\* Every step keeps the inductive invariant.
LEMMA StepIInv == IInv /\ [Next]_vars => IInv'
<1> SUFFICES ASSUME IInv, [Next]_vars PROVE IInv'
  OBVIOUS
<1> USE DEF adapter, vaults, exchange
<1>1. CASE ConfigureProtocol
  BY <1>1 DEF ConfigureProtocol, IInv, TypeOK, HoldingsMatchVaults, KeyOf, NoncesSpent, HeldIsAdmitted
<1>2. ASSUME NEW on \in BOOLEAN, SetNativeExecutionEnabled(on) PROVE IInv'
  BY <1>2 DEF SetNativeExecutionEnabled, IInv, TypeOK, HoldingsMatchVaults, KeyOf, NoncesSpent,
              HeldIsAdmitted
<1>3. ASSUME NEW v \in Vaults, RegisterVault(v) PROVE IInv'
  BY <1>3 DEF RegisterVault, IInv, TypeOK, HoldingsMatchVaults, KeyOf, NoncesSpent, HeldIsAdmitted
<1>4. ASSUME NEW m \in Markets, NEW pool \in Pools, List(m, pool) \/ MovePool(m, pool) PROVE IInv'
  <2>1. listing' \in [Markets -> ListingType]
    <3>1. CASE List(m, pool)
      <4>1. listing[m].generation + 1 \in Generations
        BY <3>1, CustodyBounds DEF List, IInv, TypeOK, ListingType, Generations
      <4> QED
        BY <3>1, <4>1 DEF List, IInv, TypeOK, ListingType
    <3>2. CASE MovePool(m, pool)
      <4>1. [listing[m] EXCEPT !.pool = pool] \in ListingType
        BY <3>2 DEF MovePool, IInv, TypeOK, ListingType
      <4> QED
        BY <3>2, <4>1 DEF MovePool, IInv, TypeOK
    <3> QED
      BY <1>4, <3>1, <3>2
  <2>2. UNCHANGED <<adapter, vaults, settled, balance, trades, donations>>
    BY <1>4 DEF List, MovePool
  <2> QED
    BY <2>1, <2>2, ExchangeIInv DEF IInv, TypeOK
<1>5. ASSUME NEW m \in Markets, Resolve(m) PROVE IInv'
  <2>1. listing[m] \in [generation: Generations, pool: Pools, trading: BOOLEAN]
    BY <1>5 DEF Resolve, IInv, TypeOK, ListingType
  <2>2. listing' \in [Markets -> ListingType] /\ settled' \subseteq Tokens
    <3>1. [listing[m] EXCEPT !.trading = FALSE] \in ListingType
      BY <2>1 DEF ListingType
    <3>2. listing' \in [Markets -> ListingType]
      BY <1>5, <3>1 DEF Resolve, IInv, TypeOK
    <3>3. settled' = settled \cup {<<listing[m].pool, i>> : i \in Indices}
      BY <1>5 DEF Resolve
    <3>4. settled' \subseteq Tokens
      BY <2>1, <3>3 DEF IInv, TypeOK, Tokens
    <3> QED
      BY <3>2, <3>4
  <2>3. UNCHANGED <<adapter, vaults, balance, trades, donations>>
    BY <1>5 DEF Resolve
  <2> QED
    BY <2>2, <2>3, ExchangeIInv DEF IInv, TypeOK
<1>6. ASSUME NEW token \in Tokens, Donate(token) PROVE IInv'
  <2>1. UNCHANGED <<adapter, vaults, listing, settled, trades>> /\ donations' = donations + 1
    BY <1>6 DEF Donate
  <2>2. balance' \in [Tokens -> Nat]
    BY <1>6 DEF Donate, IInv, TypeOK
  <2> QED
    BY <2>1, <2>2, ExchangeIInv DEF IInv, TypeOK
<1>7. ASSUME NEW v \in Vaults, NEW m \in Markets, NEW side \in Sides, NEW price \in Prices,
             NEW quantity \in Quantities, PlaceBuy(v, m, side, price, quantity)
      PROVE  IInv'
  BY <1>7, PlaceBuyIInv
<1>8. ASSUME NEW v \in Vaults, NEW m \in Markets, Recover(v, m) PROVE IInv'
  BY <1>8, RecoverIInv
<1>9. CASE UNCHANGED vars
  BY <1>9 DEF vars, IInv, TypeOK, HoldingsMatchVaults, KeyOf, NoncesSpent, HeldIsAdmitted
<1> QED
  BY <1>1, <1>2, <1>3, <1>4, <1>5, <1>6, <1>7, <1>8, <1>9 DEF Next

\* The inductive invariant holds in every reachable state.
THEOREM CustodyInvariant == Spec => []IInv
BY InitIInv, StepIInv, PTL DEF Spec

\* Type correctness: in particular no amount is held without its pool and token.
THEOREM CustodyTypeOK == Spec => []TypeOK
<1>1. IInv => TypeOK
  BY DEF IInv
<1> QED
  BY <1>1, CustodyInvariant, PTL

\* The adapter's holdings and the vaults' positions agree in every reachable state.
THEOREM CustodyBooksAgree == Spec => []HoldingsMatchVaults
<1>1. IInv => HoldingsMatchVaults
  BY DEF IInv
<1> QED
  BY <1>1, CustodyInvariant, PTL

\* The adapter never refuses a vault's recovery of a held position, whatever became of
\* the gate, the market's generation and its pool.
THEOREM CustodyRecovery == Spec => []RecoveryNeverRefused
<1>1. IInv => RecoveryNeverRefused
  <2> SUFFICES ASSUME IInv, NEW v \in Vaults, NEW m \in Markets, positions[v][m].amount > 0
               PROVE  RecoveryAvailable(v, m) /\ AdapterAccepts(v, m)
    BY DEF RecoveryNeverRefused
  <2>1. RecoveryAvailable(v, m) /\ RecoveryEnabled /\ v \in registered
    BY DEF IInv, HeldIsAdmitted, RecoveryAvailable, RecoveryEnabled, TypeOK, PositionType, NoPosition
  <2>2. NextNonce(v) \notin consumed[v]
    BY DEF IInv, TypeOK, NoncesSpent, NextNonce
  <2>3. KeyOf(v, m) \in Keys /\ KeyOf(v, m).market = m
    BY DEF IInv, TypeOK, PositionType, NoPosition, KeyOf, Key, Keys
  <2>4. holdings[v][KeyOf(v, m)].amount = positions[v][m].amount
    BY <2>3 DEF IInv, HoldingsMatchVaults
  <2> QED
    BY <2>1, <2>2, <2>4 DEF AdapterAccepts
<1> QED
  BY <1>1, CustodyInvariant, PTL

-----------------------------------------------------------------------------
(* The adapter's account.                                                  *)

\* There are finitely many pairs of a vault and a key.
LEMMA FiniteClaims == IsFiniteSet(Vaults \X Keys)
<1> DEFINE Triples == (Markets \X Generations) \X Indices
           f == [x \in Triples |-> Key(x[1][1], x[1][2], x[2])]
<1>1. IsFiniteSet(Generations) /\ IsFiniteSet(Indices)
  <2>1. IsFiniteSet(1..MaxGeneration)
    BY CustodyBounds, FS_Interval
  <2>2. IsFiniteSet({0} \cup {1})
    BY FS_Singleton, FS_Union
  <2> QED
    BY <2>1, <2>2 DEF Generations, Indices
<1>2. IsFiniteSet(Triples)
  BY <1>1, FiniteAssumption, FS_Product
<1>3. f \in Surjection(Triples, Keys)
  <2>1. f \in [Triples -> Keys]
    BY DEF Key, Keys
  <2>2. ASSUME NEW k \in Keys PROVE \E x \in Triples : f[x] = k
    <3> DEFINE x == <<<<k.market, k.generation>>, k.index>>
    <3>1. x \in Triples /\ x[1][1] = k.market /\ x[1][2] = k.generation /\ x[2] = k.index
      BY DEF Keys
    <3>2. Key(k.market, k.generation, k.index) = k
      BY DEF Key, Keys
    <3> HIDE DEF x
    <3>3. f[x] = k
      BY <3>1, <3>2
    <3> QED
      BY <3>1, <3>3
  <2> HIDE DEF f, Triples
  <2> QED
    BY <2>1, <2>2 DEF Surjection
<1> HIDE DEF f, Triples
<1>4. IsFiniteSet(Keys)
  BY <1>2, <1>3, FS_Surjection
<1> QED
  BY <1>4, FiniteAssumption, FS_Product

\* Every claim is an amount.
LEMMA ClaimsType ==
  ASSUME TypeOK, NEW token
  PROVE  Claims(token) \in [Vaults \X Keys -> Nat]
<1>1. ASSUME NEW c \in Vaults \X Keys PROVE holdings[c[1]][c[2]].amount \in Nat
  BY DEF TypeOK, HoldingType, NoHolding
<1> QED
  BY <1>1 DEF Claims

\* When one holding changes, every token's claims change by what it claimed of them.
LEMMA ClaimsMove ==
  ASSUME TypeOK, TypeOK', NEW v \in Vaults, NEW k \in Keys, NEW token,
         \A w \in Vaults, j \in Keys : ~(w = v /\ j = k) => holdings'[w][j] = holdings[w][j]
  PROVE  /\ SumFunction(Claims(token)) \in Nat
         /\ SumFunction(Claims(token)') =
              SumFunction(Claims(token)) - Claims(token)[<<v, k>>] + Claims(token)'[<<v, k>>]
<1> DEFINE S == Vaults \X Keys
           f == Claims(token)
           g == Claims(token)'
           y == <<v, k>>
<1>1. f \in [S -> Nat] /\ g \in [S -> Nat]
  <2>1. f \in [S -> Nat]
    BY ClaimsType
  <2>2. ASSUME NEW c \in Vaults \X Keys PROVE holdings'[c[1]][c[2]].amount \in Nat
    BY DEF TypeOK, HoldingType, NoHolding
  <2>3. g \in [S -> Nat]
    BY <2>2 DEF Claims
  <2> QED
    BY <2>1, <2>3
<1>2. y \in S
  OBVIOUS
<1>3. ASSUME NEW c \in S \ {y} PROVE f[c] = g[c]
  <2>1. c[1] \in Vaults /\ c[2] \in Keys /\ ~(c[1] = v /\ c[2] = k)
    BY <1>3
  <2>2. holdings'[c[1]][c[2]] = holdings[c[1]][c[2]]
    BY <2>1
  <2> QED
    BY <2>2 DEF Claims
<1>4. IsFiniteSet(S)
  BY FiniteClaims
<1> HIDE DEF S, f, g, y
<1>5. \A x \in S : f[x] \in Nat /\ g[x] \in Nat
  BY <1>1
<1>6. SumFunctionOnSet(g, S) = SumFunctionOnSet(f, S) - f[y] + g[y] /\ SumFunctionOnSet(f, S) \in Nat
  BY <1>2, <1>3, <1>4, <1>5, SumChange, SumType
<1>7. SumFunction(f) = SumFunctionOnSet(f, S) /\ SumFunction(g) = SumFunctionOnSet(g, S)
  BY <1>1 DEF SumFunction
<1> QED
  BY <1>6, <1>7 DEF f, g, y

\* The claims on a token add up to an amount.
LEMMA ClaimsSum == ASSUME TypeOK, NEW token PROVE SumFunction(Claims(token)) \in Nat
<1> DEFINE S == Vaults \X Keys
           f == Claims(token)
<1>1. f \in [S -> Nat] /\ IsFiniteSet(S)
  BY ClaimsType, FiniteClaims
<1> HIDE DEF S, f
<1>2. SumFunctionOnSet(f, S) \in Nat /\ SumFunction(f) = SumFunctionOnSet(f, S)
  BY <1>1, SumType DEF SumFunction
<1> QED
  BY <1>2 DEF f

\* Nothing is promised at first.
LEMMA InitCovers == Init => CustodyCovers
<1> SUFFICES ASSUME Init, NEW token \in Tokens PROVE SumFunction(Claims(token)) <= balance[token]
  BY DEF CustodyCovers
<1> DEFINE S == Vaults \X Keys
           f == Claims(token)
<1>1. DOMAIN f = S /\ \A c \in S : f[c] = 0
  BY DEF Init, Claims, NoHolding
<1>2. IsFiniteSet(S)
  BY FiniteClaims
<1> HIDE DEF S, f
<1>3. SumFunctionOnSet(f, S) = 0
  BY <1>1, <1>2, SumZero
<1>4. SumFunction(f) = 0
  BY <1>1, <1>3 DEF SumFunction
<1>5. balance[token] = 0
  BY DEF Init
<1> QED
  BY <1>4, <1>5 DEF f

\* A fill adds to the account and to the claims on the same token: a holding that still
\* has tokens has them of that kind (_recordHolding's check).
LEMMA PlaceBuyCovers ==
  ASSUME IInv, IInv', CustodyCovers, NEW v \in Vaults, NEW m \in Markets, NEW side \in Sides,
         NEW price \in Prices, NEW quantity \in Quantities, PlaceBuy(v, m, side, price, quantity)
  PROVE  CustodyCovers'
<1> DEFINE generation == listing[m].generation
           pool == listing[m].pool
           index == OutcomeIndex(side)
           token == <<pool, index>>
           k == Key(m, generation, index)
<1>1. PICK filled \in 0..quantity :
        IF filled = 0
        THEN UNCHANGED <<holdings, positions, balance>>
        ELSE /\ HoldingCompatible(holdings[v][k], pool, token)
             /\ holdings' = [holdings EXCEPT ![v][k] = RecordHolding(@, pool, token, filled)]
             /\ balance' = [balance EXCEPT ![token] = @ + filled]
  BY DEF PlaceBuy
<1>2. filled \in Nat
  BY RequestAssumption
<1>3. listing[m].trading
  BY DEF PlaceBuy
<1>4. generation \in Generations /\ pool \in Pools /\ index \in Indices
  BY <1>3 DEF IInv, TypeOK, ListingType, OutcomeIndex, Sides, Indices
<1>5. k \in Keys /\ token \in Tokens
  BY <1>4 DEF Key, Keys, Tokens
<1>6. CASE filled = 0
  BY <1>1, <1>6 DEF CustodyCovers, Claims
<1>7. CASE filled # 0
  <2> HIDE DEF k, token, pool, index, generation
  <2>1. /\ HoldingCompatible(holdings[v][k], pool, token)
        /\ holdings' = [holdings EXCEPT ![v][k] = RecordHolding(@, pool, token, filled)]
        /\ balance' = [balance EXCEPT ![token] = @ + filled]
    BY <1>1, <1>7
  <2>2. /\ holdings'[v][k].outcomeId = token
        /\ holdings'[v][k].amount = holdings[v][k].amount + filled
        /\ \A w \in Vaults, j \in Keys : ~(w = v /\ j = k) => holdings'[w][j] = holdings[w][j]
    BY <1>5, <2>1 DEF IInv, TypeOK, RecordHolding
  <2>3. holdings[v][k].amount \in Nat /\ (holdings[v][k].amount > 0 => holdings[v][k].outcomeId = token)
    BY <1>5, <2>1 DEF IInv, TypeOK, HoldingType, NoHolding, HoldingCompatible
  <2>4. ASSUME NEW t \in Tokens PROVE SumFunction(Claims(t)') <= balance'[t]
    <3>1. /\ Claims(t)[<<v, k>>] = IF t = token THEN holdings[v][k].amount ELSE 0
          /\ Claims(t)'[<<v, k>>] = IF t = token THEN holdings[v][k].amount + filled ELSE 0
      BY <1>5, <2>2, <2>3 DEF Claims
    <3>2. /\ SumFunction(Claims(t)) \in Nat
          /\ SumFunction(Claims(t)') =
               SumFunction(Claims(t)) - Claims(t)[<<v, k>>] + Claims(t)'[<<v, k>>]
      BY <1>5, <2>2, ClaimsMove DEF IInv
    <3>3. SumFunction(Claims(t)) <= balance[t] /\ balance[t] \in Nat
      BY DEF CustodyCovers, IInv, TypeOK
    <3>4. balance'[t] = IF t = token THEN balance[t] + filled ELSE balance[t]
      BY <2>1 DEF IInv, TypeOK
    <3> QED
      BY <1>2, <2>3, <3>1, <3>2, <3>3, <3>4
  <2> QED
    BY <2>4 DEF CustodyCovers
<1> QED
  BY <1>6, <1>7

\* A recovery takes from the account what it takes from the claims.
LEMMA RecoverCovers ==
  ASSUME IInv, IInv', CustodyCovers, NEW v \in Vaults, NEW m \in Markets, Recover(v, m)
  PROVE  CustodyCovers'
<1> DEFINE k == KeyOf(v, m)
           token == holdings[v][k].outcomeId
           amount == positions[v][m].amount
<1>1. /\ amount # 0 /\ AdapterAccepts(v, m)
      /\ token \in settled /\ balance[token] >= amount
      /\ balance' = [balance EXCEPT ![token] = @ - amount]
      /\ holdings' = [holdings EXCEPT ![v][k] = ClearedHolding(@)]
  BY DEF Recover, RecoveryAvailable
<1>2. k \in Keys
  <2>1. positions[v][m] \in [generation: Generations, outcomeIndex: Indices, amount: Nat, resolved: BOOLEAN]
    BY <1>1 DEF IInv, TypeOK, PositionType, NoPosition
  <2> QED
    BY <2>1 DEF KeyOf, Key, Keys
<1>3. holdings[v][k].amount = amount /\ holdings[v][k].amount \in Nat
  BY <1>1, <1>2 DEF AdapterAccepts, IInv, TypeOK, HoldingType, NoHolding
<1>4. /\ holdings'[v][k].outcomeId = token
      /\ holdings'[v][k].amount = 0
      /\ \A w \in Vaults, j \in Keys : ~(w = v /\ j = k) => holdings'[w][j] = holdings[w][j]
  BY <1>1, <1>2 DEF IInv, TypeOK, HoldingType, NoHolding, ClearedHolding
<1>5. token \in Tokens
  BY <1>1 DEF IInv, TypeOK
<1> HIDE DEF k, amount
<1>6. ASSUME NEW t \in Tokens PROVE SumFunction(Claims(t)') <= balance'[t]
  <2>1. /\ Claims(t)[<<v, k>>] = IF t = token THEN amount ELSE 0
        /\ Claims(t)'[<<v, k>>] = 0
    BY <1>2, <1>3, <1>4 DEF Claims
  <2>2. /\ SumFunction(Claims(t)) \in Nat
        /\ SumFunction(Claims(t)') =
             SumFunction(Claims(t)) - Claims(t)[<<v, k>>] + Claims(t)'[<<v, k>>]
    BY <1>2, <1>4, ClaimsMove DEF IInv
  <2>3. SumFunction(Claims(t)) <= balance[t] /\ balance[t] \in Nat
    BY DEF CustodyCovers, IInv, TypeOK
  <2>4. balance'[t] = IF t = token THEN balance[t] - amount ELSE balance[t]
    BY <1>1, <1>5 DEF IInv, TypeOK
  <2> QED
    BY <1>3, <2>1, <2>2, <2>3, <2>4
<1> QED
  BY <1>6 DEF CustodyCovers

\* Every step keeps the account covered.
LEMMA StepCovers == IInv /\ IInv' /\ CustodyCovers /\ [Next]_vars => CustodyCovers'
<1> SUFFICES ASSUME IInv, IInv', CustodyCovers, [Next]_vars PROVE CustodyCovers'
  OBVIOUS
<1>1. ASSUME NEW token \in Tokens, Donate(token) PROVE CustodyCovers'
  <2>1. ASSUME NEW t \in Tokens PROVE Claims(t)' = Claims(t)
    BY <1>1 DEF Donate, adapter, Claims
  <2>2. ASSUME NEW t \in Tokens PROVE SumFunction(Claims(t)') <= balance'[t]
    <3>1. SumFunction(Claims(t)) <= balance[t] /\ balance[t] \in Nat /\ balance[t] <= balance'[t]
      BY <1>1 DEF Donate, CustodyCovers, IInv, TypeOK
    <3>2. SumFunction(Claims(t)) \in Nat
      BY ClaimsSum DEF IInv
    <3>3. balance'[t] \in Nat
      BY DEF IInv, TypeOK
    <3> QED
      BY <2>1, <3>1, <3>2, <3>3
  <2> QED
    BY <2>2 DEF CustodyCovers
<1>2. CASE UNCHANGED <<holdings, balance>>
  BY <1>2 DEF CustodyCovers, Claims
<1> QED
  BY <1>1, <1>2, PlaceBuyCovers, RecoverCovers
  DEF Next, vars, adapter, vaults, exchange, ConfigureProtocol, SetNativeExecutionEnabled,
      RegisterVault, List, MovePool, Resolve

\* The adapter's one account covers the claims of any number of vaults, through every
\* move of a market to another pool and every new generation.
THEOREM CustodyCoversAll == Spec => []CustodyCovers
BY InitCovers, StepCovers, CustodyInvariant, PTL DEF Spec

-----------------------------------------------------------------------------
(* The adapter's answers, for every grid, price and quantity.              *)

\* Whole lots never exceed what was asked.
LEMMA LotsBelow ==
  ASSUME NEW quantity \in Nat \ {0}
  PROVE  OrderQuantity(quantity) \in Nat /\ OrderQuantity(quantity) <= quantity
BY GridAssumption DEF OrderQuantity

\* The worst cost grows with the quantity: what the adapter pulls, the vault approved.
LEMMA CostMonotone ==
  ASSUME NEW price \in Nat \ {0}, NEW a \in Nat, NEW b \in Nat, a <= b
  PROVE  ExpectedCost(price, a) <= ExpectedCost(price, b)
<1> DEFINE x == price * a + PriceScale - 1
           y == price * b + PriceScale - 1
<1>1. price * a <= price * b /\ price * a \in Nat /\ price * b \in Nat
  <2>1. PICK d \in Nat : b = a + d
    BY b - a \in Nat, b = a + (b - a)
  <2>2. price * b = price * a + price * d /\ price * d \in Nat /\ price * a \in Nat
    BY <2>1
  <2> QED
    BY <2>2
<1>2. x \in Nat /\ y \in Nat /\ x <= y
  BY <1>1, ScaleAssumption
<1> HIDE DEF x, y
<1>3. x \div PriceScale <= y \div PriceScale
  BY <1>2, ScaleAssumption
<1> QED
  BY <1>3 DEF x, y, ExpectedCost

\* The vault accepts every answer the adapter can give.
THEOREM CustodyAnswers == Spec => []AnswersFitVault
<1>1. AnswersFitVault
  <2> SUFFICES ASSUME NEW price \in Prices, NEW quantity \in Quantities,
                      NEW filled \in 0..(quantity + LotSize),
                      NEW cost \in 0..(ExpectedCost(price, quantity) + LotSize),
                      FillAccepted(cost, filled, price, quantity)
               PROVE  ResultAccepted(Status(filled, quantity), cost, filled, price, quantity)
    BY DEF AnswersFitVault
  <2>1. price \in Nat \ {0} /\ quantity \in Nat \ {0} /\ filled \in Int /\ cost \in Int
    BY RequestAssumption
  <2>2. OrderQuantity(quantity) \in Nat /\ OrderQuantity(quantity) <= quantity
    BY <2>1, LotsBelow
  <2>3. ExpectedCost(price, OrderQuantity(quantity)) <= ExpectedCost(price, quantity)
    BY <2>1, <2>2, CostMonotone
  <2>4. /\ ExpectedCost(price, quantity) \in Int
        /\ ExpectedCost(price, OrderQuantity(quantity)) \in Int
    BY <2>1, <2>2, ScaleAssumption DEF ExpectedCost
  <2>5. cost <= ExpectedCost(price, quantity) /\ filled <= quantity
    BY <2>1, <2>2, <2>3, <2>4 DEF FillAccepted
  <2> QED
    BY <2>1, <2>5 DEF FillAccepted, ResultAccepted, Status
<1> QED
  BY <1>1, PTL
=============================================================================
