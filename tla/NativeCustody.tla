---------------------------- MODULE NativeCustody ----------------------------
(***************************************************************************)
(* The native adapter (contracts/src/ProofCastDreamDexAdapter.sol) with    *)
(* the followers' vaults that trade through it.  The adapter holds the     *)
(* outcome tokens of all vaults in one account and keeps in `holdings`     *)
(* what belongs to whom; each vault keeps its own record of the same       *)
(* position.  The exchange is external: it lists markets on pools, moves   *)
(* them, starts new generations, resolves them, and may fill an order as   *)
(* it likes; the adapter's checks decide what commits.                     *)
(*                                                                         *)
(* Money and the policy are FollowerVault's: here a vault may place any    *)
(* order its position allows.  Operator and venue are fixed per market.    *)
(***************************************************************************)
EXTENDS OrderResults, FiniteSets, Functions

CONSTANTS
  Vaults, Markets, Pools,
  NoPool,          \* the zero address
  TickSize, LotSize, MinQuantity,   \* the pool's order book grid
  Prices,          \* prices of trade requests
  Quantities,      \* quantities of trade requests
  MaxGeneration,   \* bound: generations of a market
  MaxTrades,       \* bound: orders placed
  MaxDonations     \* bound: outcome tokens sent to the adapter by strangers

ASSUME GridAssumption ==
  LotSize \in Nat \ {0} /\ TickSize \in Nat \ {0} /\ MinQuantity \in Nat
ASSUME RequestAssumption ==
  Prices \subseteq Nat \ {0} /\ Quantities \subseteq Nat \ {0}
ASSUME FiniteAssumption == IsFiniteSet(Vaults) /\ IsFiniteSet(Markets)   \* addresses and 32-byte ids
ASSUME PoolAssumption == NoPool \notin Pools
ASSUME CustodyBounds ==
  MaxGeneration \in Nat /\ MaxTrades \in Nat /\ MaxDonations \in Nat

VARIABLES
  \* the adapter
  configured,     \* protocolModule is set, so nativeRecoveryEnabled
  enabled,        \* nativeExecutionEnabled
  registered,     \* registeredVaults
  holdings,       \* per vault and key: pool, outcome token and amount
  consumed,       \* consumedRecoveryNonce, per vault
  \* the vaults
  positions,      \* recoveryConfigs, per vault and market
  recoveryCount,  \* per vault
  \* the exchange
  listing,        \* per market: generation, pool, and whether it trades
  settled,        \* outcome tokens the settlement redeems
  balance,        \* outcome tokens in the adapter's account
  trades, donations

adapter == <<configured, enabled, registered, holdings, consumed>>
vaults == <<positions, recoveryCount>>
exchange == <<listing, settled, balance>>
vars == <<adapter, vaults, exchange, trades, donations>>

Indices == {0, 1}
Generations == 1..MaxGeneration
Tokens == Pools \X Indices        \* outcome token ids: a pool's YES and NO
Keys == [market: Markets, generation: Generations, index: Indices]

NoHolding == [pool |-> NoPool, outcomeId |-> <<NoPool, 0>>, amount |-> 0]
NoPosition == [generation |-> 0, outcomeIndex |-> 0, amount |-> 0, resolved |-> FALSE]

\* _key: operator and venue are fixed per market.
Key(market, generation, index) ==
  [market |-> market, generation |-> generation, index |-> index]
KeyOf(v, m) == Key(m, positions[v][m].generation, positions[v][m].outcomeIndex)

-----------------------------------------------------------------------------
(* The adapter's arithmetic and checks.                                    *)

\* _orderQuantity: whole lots only, never more than asked.
OrderQuantity(quantity) == (quantity \div LotSize) * LotSize

OnGrid(price, quantity) ==
  /\ price % TickSize = 0
  /\ OrderQuantity(quantity) # 0
  /\ OrderQuantity(quantity) >= MinQuantity

\* What the pool may answer: the cost and the tokens that arrived.
FillAccepted(cost, filled, price, quantity) ==
  /\ cost <= ExpectedCost(price, OrderQuantity(quantity))
  /\ filled <= OrderQuantity(quantity)
  /\ (filled = 0) <=> (cost = 0)

\* Faulty variant: an order filled up to its whole lots counts as filled.
StatusByLots(filled, quantity) ==
  IF filled = 0 THEN "ZERO_FILL"
  ELSE IF filled = OrderQuantity(quantity) THEN "FILLED" ELSE "PARTIAL_FILL"

Status(filled, quantity) ==
  IF filled = 0 THEN "ZERO_FILL"
  ELSE IF filled = quantity THEN "FILLED" ELSE "PARTIAL_FILL"

\* Faulty variant: tokens of any pool are added up.
HoldingCompatibleAlways(holding, pool, token) == TRUE

\* _recordHolding: tokens are only added to tokens of the same kind.
HoldingCompatible(holding, pool, token) ==
  holding.amount > 0 => holding.pool = pool /\ holding.outcomeId = token

RecordHolding(holding, pool, token, filled) ==
  [pool |-> pool, outcomeId |-> token, amount |-> holding.amount + filled]

-----------------------------------------------------------------------------
Init ==
  /\ configured = FALSE /\ enabled = FALSE /\ registered = {}
  /\ holdings = [v \in Vaults |-> [k \in Keys |-> NoHolding]]
  /\ consumed = [v \in Vaults |-> {}]
  /\ positions = [v \in Vaults |-> [m \in Markets |-> NoPosition]]
  /\ recoveryCount = [v \in Vaults |-> 0]
  /\ listing = [m \in Markets |-> [generation |-> 0, pool |-> NoPool, trading |-> FALSE]]
  /\ settled = {}
  /\ balance = [t \in Tokens |-> 0]
  /\ trades = 0 /\ donations = 0

(* The owner and the factory                                               *)

ConfigureProtocol ==
  /\ ~configured
  /\ configured' = TRUE
  /\ UNCHANGED <<enabled, registered, holdings, consumed, vaults, exchange, trades, donations>>

SetNativeExecutionEnabled(on) ==
  /\ on => configured
  /\ enabled' = on
  /\ UNCHANGED <<configured, registered, holdings, consumed, vaults, exchange, trades, donations>>

RegisterVault(v) ==
  /\ registered' = registered \cup {v}
  /\ UNCHANGED <<configured, enabled, holdings, consumed, vaults, exchange, trades, donations>>

(* The exchange                                                            *)

Free(pool) == \A m \in Markets : listing[m].trading => listing[m].pool # pool

\* A market opens, or opens again as a new generation, on a free pool.
List(m, pool) ==
  /\ ~listing[m].trading /\ Free(pool)
  /\ listing[m].generation < MaxGeneration
  /\ listing' = [listing EXCEPT ![m] = [generation |-> @.generation + 1, pool |-> pool,
                                        trading |-> TRUE]]
  /\ UNCHANGED <<adapter, vaults, settled, balance, trades, donations>>

\* A trading market moves to another pool within its generation.
MovePool(m, pool) ==
  /\ listing[m].trading /\ Free(pool)
  /\ listing' = [listing EXCEPT ![m].pool = pool]
  /\ UNCHANGED <<adapter, vaults, settled, balance, trades, donations>>

Resolve(m) ==
  /\ listing[m].trading
  /\ listing' = [listing EXCEPT ![m].trading = FALSE]
  /\ settled' = settled \cup {<<listing[m].pool, i>> : i \in Indices}
  /\ UNCHANGED <<adapter, vaults, balance, trades, donations>>

\* Somebody sends outcome tokens to the adapter's account.
Donate(token) ==
  /\ donations < MaxDonations
  /\ balance' = [balance EXCEPT ![token] = @ + 1]
  /\ donations' = donations + 1
  /\ UNCHANGED <<adapter, vaults, listing, settled, trades>>

-----------------------------------------------------------------------------
(* Orders and recovery, from the vault's call to its bookkeeping.          *)

\* The vault: an open position only grows in its own generation and on its own side.
PositionCompatible(position, generation, side) ==
  position.amount # 0 =>
    position.generation = generation /\ position.outcomeIndex = OutcomeIndex(side)

AddPosition(position, generation, side, filled) ==
  [generation |-> generation, outcomeIndex |-> OutcomeIndex(side),
   amount |-> position.amount + filled, resolved |-> FALSE]

\* executeTrade and, within it, placeBuyIoc.  The request names the market's current
\* generation, pool and token, or _validate refuses it.
PlaceBuy(v, m, side, price, quantity) ==
  LET generation == listing[m].generation
      pool == listing[m].pool
      token == <<pool, OutcomeIndex(side)>>
      k == Key(m, generation, OutcomeIndex(side))
  IN  /\ trades < MaxTrades
      /\ PositionCompatible(positions[v][m], generation, side)
      /\ enabled /\ v \in registered
      /\ price <= PriceScale
      /\ listing[m].trading
      /\ OnGrid(price, quantity)
      /\ \E filled \in 0..quantity, cost \in 0..ExpectedCost(price, quantity) :
           /\ FillAccepted(cost, filled, price, quantity)
           /\ ResultAccepted(Status(filled, quantity), cost, filled, price, quantity)
           /\ IF filled = 0
              THEN UNCHANGED <<holdings, positions, balance>>
              ELSE /\ HoldingCompatible(holdings[v][k], pool, token)
                   /\ holdings' = [holdings EXCEPT ![v][k] = RecordHolding(@, pool, token, filled)]
                   /\ positions' = [positions EXCEPT ![v][m] = AddPosition(@, generation, side, filled)]
                   /\ balance' = [balance EXCEPT ![token] = @ + filled]
      /\ trades' = trades + 1
      /\ UNCHANGED <<configured, enabled, registered, consumed, recoveryCount, listing,
                     settled, donations>>

\* The vault's own guards.
RecoveryAvailable(v, m) == ~positions[v][m].resolved /\ positions[v][m].amount # 0

\* Faulty variant: execution and recovery share one gate.
RecoveryEnabledWithExecution == enabled

RecoveryEnabled == configured

NextNonce(v) == recoveryCount[v] + 1

\* supportsRecovery and the guards of the adapter's recover.
AdapterAccepts(v, m) ==
  /\ RecoveryEnabled
  /\ v \in registered
  /\ NextNonce(v) \notin consumed[v]
  /\ holdings[v][KeyOf(v, m)].amount = positions[v][m].amount

\* Faulty variant: the holding is kept.
ClearedHoldingKept(holding) == holding

ClearedHolding(holding) == [holding EXCEPT !.amount = 0]

\* recover: the vault's call, the adapter's, the settlement's burn of the tokens and the
\* vault's bookkeeping.  Anybody may call it.
Recover(v, m) ==
  LET k == KeyOf(v, m)
      token == holdings[v][k].outcomeId
  IN  /\ RecoveryAvailable(v, m)
      /\ AdapterAccepts(v, m)
      /\ token \in settled
      /\ balance[token] >= positions[v][m].amount
      /\ balance' = [balance EXCEPT ![token] = @ - positions[v][m].amount]
      /\ holdings' = [holdings EXCEPT ![v][k] = ClearedHolding(@)]
      /\ consumed' = [consumed EXCEPT ![v] = @ \cup {NextNonce(v)}]
      /\ positions' = [positions EXCEPT ![v][m].amount = 0, ![v][m].resolved = TRUE]
      /\ recoveryCount' = [recoveryCount EXCEPT ![v] = @ + 1]
      /\ UNCHANGED <<configured, enabled, registered, listing, settled, trades, donations>>

Next ==
  \/ ConfigureProtocol
  \/ \E on \in BOOLEAN : SetNativeExecutionEnabled(on)
  \/ \E v \in Vaults : RegisterVault(v)
  \/ \E m \in Markets, pool \in Pools : List(m, pool) \/ MovePool(m, pool)
  \/ \E m \in Markets : Resolve(m)
  \/ \E token \in Tokens : Donate(token)
  \/ \E v \in Vaults, m \in Markets, side \in Sides, price \in Prices, quantity \in Quantities :
       PlaceBuy(v, m, side, price, quantity)
  \/ \E v \in Vaults, m \in Markets : Recover(v, m)

Spec == Init /\ [][Next]_vars

-----------------------------------------------------------------------------
(* Properties                                                              *)

HoldingType == [pool: Pools, outcomeId: Tokens, amount: Nat] \cup {NoHolding}

PositionType ==
  [generation: Generations, outcomeIndex: Indices, amount: Nat, resolved: BOOLEAN]
    \cup {NoPosition}

ListingType ==
  [generation: Generations, pool: Pools, trading: BOOLEAN]
    \cup {[generation |-> 0, pool |-> NoPool, trading |-> FALSE]}

\* Every variable has its type; in particular an amount is never held without the pool
\* and token it is redeemed with.
TypeOK ==
  /\ configured \in BOOLEAN /\ enabled \in BOOLEAN
  /\ registered \subseteq Vaults
  /\ holdings \in [Vaults -> [Keys -> HoldingType]]
  /\ consumed \in [Vaults -> SUBSET Nat]
  /\ positions \in [Vaults -> [Markets -> PositionType]]
  /\ recoveryCount \in [Vaults -> Nat]
  /\ listing \in [Markets -> ListingType]
  /\ settled \subseteq Tokens
  /\ balance \in [Tokens -> Nat]
  /\ trades \in Nat /\ donations \in Nat

\* What the adapter's books promise of a token, per vault and key.
Claims(token) ==
  [c \in Vaults \X Keys |->
     IF holdings[c[1]][c[2]].outcomeId = token THEN holdings[c[1]][c[2]].amount ELSE 0]

\* The adapter's account covers everybody: whatever pools the markets move through, the
\* tokens of a kind it holds are at least those its books promise to the vaults, so no
\* vault's recovery redeems another's tokens (_recordHolding, recover).
CustodyCovers == \A token \in Tokens : SumFunction(Claims(token)) <= balance[token]

\* The two contracts agree on every position: under the key the vault will recover with
\* the adapter holds exactly the vault's amount, and under every other key nothing.
HoldingsMatchVaults ==
  \A v \in Vaults, k \in Keys :
    holdings[v][k].amount =
      IF k = KeyOf(v, k.market) THEN positions[v][k.market].amount ELSE 0

\* A position once bought stays recoverable as far as the contracts are concerned: the
\* adapter refuses none of the vault's recoveries, with the execution gate closed, with
\* the market in a later generation or on another pool (recover, supportsRecovery).
RecoveryNeverRefused ==
  \A v \in Vaults, m \in Markets :
    positions[v][m].amount > 0 => RecoveryAvailable(v, m) /\ AdapterAccepts(v, m)

\* Whatever the pool does, what the adapter reports of it the vault accepts: the two
\* roundings, to whole lots in one contract and to whole cost units in the other, and
\* the two readings of "filled" never disagree, so no order reverts on the way back.
AnswersFitVault ==
  enabled =>
    \A price \in Prices, quantity \in Quantities :
      OnGrid(price, quantity) =>
        \A filled \in 0..(quantity + LotSize), cost \in 0..(ExpectedCost(price, quantity) + LotSize) :
          FillAccepted(cost, filled, price, quantity) =>
            ResultAccepted(Status(filled, quantity), cost, filled, price, quantity)
=============================================================================
